---- MODULE Spec2Model ----
(***************************************************************************)
(* cherry-go: synchronisation of tracked files and directories from a      *)
(* cached clone of a remote repository into a consumer working tree.       *)
(*                                                                         *)
(* Representation.                                                         *)
(*   - a path or a glob pattern is a sequence of one-character strings,    *)
(*     "/" being the separator: <<"t","/","b">> is t/b;                    *)
(*   - the bytes of a text file are the sequence of its lines (each line   *)
(*     a positive number, every line newline-terminated), <<>> being the   *)
(*     empty file; NoFile stands for "the path does not exist";            *)
(*   - a Go map is a total function over the finite universe of its keys,  *)
(*     a key without an entry mapping to NoFile (bytes) or NoHash (hash).  *)
(***************************************************************************)
EXTENDS Integers, Sequences, FiniteSets, TLC

(***************************************************************************)
(* Bounds of the exploration.                                              *)
(***************************************************************************)
MaxRuns == 2
MaxEvents == 2
MaxAllEvents == 1
MaxBranchEvents == 3
MaxLen == 2

(***************************************************************************)
(* File contents, hashes.                                                  *)
(***************************************************************************)
NoFile == <<0>>
NoHash == <<>>
HashTag == 256

\* hash.HashFile / HashBytes: SHA-256 of the bytes, modelled as an injective
\* tagging of the content (never the content itself, never NoHash).
HashBytes(content) == <<HashTag>> \o content

\* Marker lines written by git merge-file --diff3 -L LOCAL -L BASE -L REMOTE.
MarkLocal == 91
MarkBase == 92
MarkSep == 93
MarkRemote == 94

(***************************************************************************)
(* Paths: filepath.Join, filepath.Base, filepath.Dir, filepath.Match,      *)
(* strings.Contains.                                                       *)
(***************************************************************************)
Slash == "/"
Dot == <<".">>

SlashIdx(p) == {i \in 1..Len(p) : p[i] = Slash}

LastSlash(p) == IF SlashIdx(p) = {} THEN 0
                ELSE CHOOSE i \in SlashIdx(p) : \A j \in SlashIdx(p) : j <= i

Base(p) == IF p = <<>> THEN Dot ELSE SubSeq(p, LastSlash(p) + 1, Len(p))

Dir(p) == IF LastSlash(p) = 0 THEN Dot ELSE SubSeq(p, 1, LastSlash(p) - 1)

\* filepath.Join cleans the result: an empty or "." first element vanishes.
Join(a, b) == IF a = <<>> \/ a = Dot THEN b
              ELSE IF b = <<>> \/ b = Dot THEN a
              ELSE a \o <<Slash>> \o b

\* the names of the directories and of the file along a relative path
RECURSIVE Components(_)
Components(p) ==
    IF p = <<>> THEN {}
    ELSE IF SlashIdx(p) = {} THEN {p}
    ELSE LET i == CHOOSE k \in SlashIdx(p) : \A j \in SlashIdx(p) : k <= j
         IN  {SubSeq(p, 1, i - 1)} \cup Components(SubSeq(p, i + 1, Len(p)))

\* filepath.Match: "*" matches any run of non-separator characters, "?" one
\* non-separator character, any other character itself; the whole name must
\* match.
RECURSIVE Match(_, _)
Match(pattern, name) ==
    IF pattern = <<>> THEN name = <<>>
    ELSE IF Head(pattern) = "*"
         THEN Match(Tail(pattern), name)
              \/ (name # <<>> /\ Head(name) # Slash /\ Match(pattern, Tail(name)))
    ELSE IF Head(pattern) = "?"
         THEN name # <<>> /\ Head(name) # Slash /\ Match(Tail(pattern), Tail(name))
    ELSE name # <<>> /\ Head(name) = Head(pattern) /\ Match(Tail(pattern), Tail(name))

Contains(s, sub) ==
    \E i \in 0..(Len(s) - Len(sub)) : SubSeq(s, i + 1, i + Len(sub)) = sub

\* git.shouldExclude (part_003): glob against the path it is given, or
\* substring.
ShouldExclude(path, excludes) ==
    \E k \in 1..Len(excludes) :
        Match(excludes[k], path) \/ Contains(path, excludes[k])

\* hash.FileHasher.shouldExclude: glob against the base name, or substring
\* of the whole relative path.
HasherShouldExclude(path, excludes) ==
    \E k \in 1..Len(excludes) :
        Match(excludes[k], Base(path)) \/ Contains(path, excludes[k])

\* copyDir calls shouldExclude(entry.Name(), excludes) on every directory
\* entry while it descends: a file is skipped when its own name or the name
\* of one of the directories above it (below the copied root) is excluded.
CopyDirSkips(rel, excludes) ==
    \E name \in Components(rel) : ShouldExclude(name, excludes)

(***************************************************************************)
(* Three-way merge (internal/merge/merge.go).                              *)
(***************************************************************************)
Range(s) == {s[i] : i \in DOMAIN s}

MergeResult(success, content, hasConflict) ==
    [Success |-> success, Content |-> content, HasConflict |-> hasConflict]

\* semanticLineMerge: the line sets of the three versions decide; the result
\* is [ok, content], ok = FALSE meaning "fall back to git".
semanticLineMerge(base, local, remote) ==
    LET baseSet   == Range(base)
        localSet  == Range(local)
        remoteSet == Range(remote)
        localRemovals   == SelectSeq(base, LAMBDA x : x \notin localSet)
        remoteRemovals  == SelectSeq(base, LAMBDA x : x \notin remoteSet)
        localAdditions  == SelectSeq(local, LAMBDA x : x \notin baseSet)
        remoteAdditions == SelectSeq(remote, LAMBDA x : x \notin baseSet)
        realConflict ==
            /\ localRemovals # <<>>
            /\ remoteRemovals # <<>>
            /\ Range(remoteRemovals) \cap Range(localRemovals) # {}
            /\ localAdditions # <<>>
            /\ remoteAdditions # <<>>
            /\ \E x \in Range(remoteAdditions) : x \notin Range(localAdditions)
    IN  IF realConflict THEN [ok |-> FALSE, content |-> <<>>]
        ELSE IF localRemovals = <<>> /\ localAdditions # <<>>
             THEN [ok |-> TRUE,
                   content |-> remote \o SelectSeq(localAdditions,
                                                   LAMBDA x : x \notin remoteSet)]
        ELSE [ok |-> FALSE, content |-> <<>>]

\* The external tool behind applyPatchWithGit (git apply --3way) and
\* fallbackToGitMergeFile (git merge-file -p --diff3): a line-based diff3.
\* Changes of the two sides merge cleanly when a line common to the three
\* versions separates them; otherwise the result carries conflict markers
\* and the exit code is positive.
ConflictContent(base, local, remote) ==
    <<MarkLocal>> \o local \o <<MarkBase>> \o base \o <<MarkSep>> \o remote
        \o <<MarkRemote>>

RECURSIVE Diff3(_, _, _)
Diff3(base, local, remote) ==
    IF base = remote THEN [clean |-> TRUE, content |-> local]
    ELSE IF base = local THEN [clean |-> TRUE, content |-> remote]
    ELSE IF local = remote THEN [clean |-> TRUE, content |-> local]
    ELSE LET anchors ==
                 {a \in (DOMAIN base) \X (DOMAIN local) \X (DOMAIN remote) :
                     /\ base[a[1]] = local[a[2]]
                     /\ base[a[1]] = remote[a[3]]
                     /\ Diff3(SubSeq(base, 1, a[1] - 1),
                              SubSeq(local, 1, a[2] - 1),
                              SubSeq(remote, 1, a[3] - 1)).clean
                     /\ Diff3(SubSeq(base, a[1] + 1, Len(base)),
                              SubSeq(local, a[2] + 1, Len(local)),
                              SubSeq(remote, a[3] + 1, Len(remote))).clean}
         IN  IF anchors = {}
             THEN [clean |-> FALSE,
                   content |-> ConflictContent(base, local, remote)]
             ELSE LET a == CHOOSE x \in anchors : TRUE
                  IN  [clean |-> TRUE,
                       content |->
                           Diff3(SubSeq(base, 1, a[1] - 1),
                                 SubSeq(local, 1, a[2] - 1),
                                 SubSeq(remote, 1, a[3] - 1)).content
                           \o <<base[a[1]]>>
                           \o Diff3(SubSeq(base, a[1] + 1, Len(base)),
                                    SubSeq(local, a[2] + 1, Len(local)),
                                    SubSeq(remote, a[3] + 1, Len(remote))).content]

fallbackToGitMergeFile(base, local, remote) ==
    LET d == Diff3(base, local, remote)
    IN  MergeResult(d.clean, d.content, ~d.clean)

applyPatchWithGit(base, local, remote) ==
    LET d == Diff3(base, local, remote)
    IN  IF d.clean THEN MergeResult(TRUE, d.content, FALSE)
        ELSE MergeResult(FALSE, d.content, TRUE)

\* ContainsConflictMarkers: one of the three markers is in the content
ContainsConflictMarkers(content) ==
    Range(content) \cap {MarkLocal, MarkSep, MarkRemote} # {}

PatchBasedMergeTakesRemote(base, local, remote) ==
    IF base = remote \/ base = local \/ local = remote
    THEN MergeResult(TRUE, remote, FALSE)
    ELSE applyPatchWithGit(base, local, remote)

PatchBasedMerge(base, local, remote) ==
    IF base = remote THEN MergeResult(TRUE, local, FALSE)
    ELSE IF base = local THEN MergeResult(TRUE, remote, FALSE)
    ELSE IF local = remote THEN MergeResult(TRUE, local, FALSE)
    ELSE LET sem == semanticLineMerge(base, local, remote)
         IN  IF sem.ok THEN MergeResult(TRUE, sem.content, FALSE)
             ELSE applyPatchWithGit(base, local, remote)

ThreeWayMerge(base, local, remote) == PatchBasedMerge(base, local, remote)

(***************************************************************************)
(* The configuration and the universe of files.                            *)
(*                                                                         *)
(* One remote repository (one cached clone) with two branches, r1 and r2.  *)
(* It holds the directory d (files d/a and d/t/b) and the file h.          *)
(* Source s1 tracks the directory d into the root of the consumer tree and *)
(* the file h into w/h, both on r1; source s2 tracks the file h of r2 at   *)
(* its own path.                                                           *)
(***************************************************************************)
Sources == <<"s1", "s2">>
SourceNames == Range(Sources)
Refs == {"r1", "r2"}

IncD == <<"d">>
IncH == <<"h">>
Includes == {IncD, IncH}
RelA == <<"a">>
RelTB == <<"t", "/", "b">>
LocalWH == <<"w", "/", "h">>

RepoPaths == {Join(IncD, RelA), Join(IncD, RelTB), IncH}
RelKeys == {RelA, RelTB, IncH}
FsKeys == {RelA, RelTB, IncH, LocalWH}

\* filepath.Walk and os.ReadDir visit names in lexical order.
WalkOrder == <<RelA, RelTB>>

\* options.branch_prefix of DefaultConfig, and the prefix CopyPaths passes
DefaultBranchPrefix == <<"cherry-go", Slash, "sync">>

\* exclude lists a directory PathSpec may carry
ExcludeChoices == {<<>>, << <<"t", "*">> >>}

\* versions a remote commit may give a file, versions a local edit may give
RemoteVersions == {<<1>>, <<3>>}
LocalVersions == {<<1, 2>>, <<2>>}

SyncModeDetect == "Detect"
SyncModeMerge == "Merge"
SyncModeForce == "Force"
SyncModeBranch == "Branch"
SyncModes == {SyncModeDetect, SyncModeMerge, SyncModeForce, SyncModeBranch}

ConflictTypeModified == "modified"
ConflictTypeDeleted == "deleted"

EmptyHashes == [k \in RelKeys |-> NoHash]
EmptyFiles == [k \in FsKeys |-> NoFile]
NoSnapshot == [exists |-> FALSE, files |-> EmptyFiles]

VARIABLES
    excludeA,   \* the exclude list of the directory PathSpec (configuration)
    branchPrefix, \* options.branch_prefix (configuration)
    autoCommit, \* options.auto_commit (configuration)
    remote,     \* remote[ref][path]: the bytes of path on branch ref
    clone,      \* the branch the cached clone's working tree is checked out at
    fs,         \* the consumer working tree: fs[path]
    snap,       \* base snapshots: snap[source][include]
    cfg,        \* in-memory configuration: cfg[source][i] is Paths[i].Files
    disk,       \* the saved configuration file, same shape
    run,        \* the command being executed
    pc,         \* pc[source]: where the Source's task is
    idx,        \* idx[source]: index of the PathSpec being processed
    res,        \* res[source]: the CopyResult / SyncResult being built
    conflictFiles, \* conflictFiles[source]: files collected for the branch
    results,    \* the results channel of syncAllSources
    closed,     \* whether the results channel has been closed
    collected,  \* the results the collector has received
    head,       \* the branch the consumer repository is on
    committed,  \* the tree of the tip of the consumer's original branch
    branches,   \* conflict branches of the consumer repository
    commits,    \* commits[source]: the auto-commit the Source's task made
    runsLeft,   \* commands still to run
    eventsLeft, \* edits and I/O failures still to happen
    start,      \* history: the stores as they were when the run started
    hist,       \* history: hist[source][i], what happened to PathSpec i
    call        \* a call of one function on its own: arguments and result

vars == <<excludeA, branchPrefix, autoCommit, remote, clone, fs, snap, cfg, disk, run, pc,
          idx, res, conflictFiles, results, closed, collected, head,
          committed, branches, commits, runsLeft, eventsLeft, start, hist,
          call>>

PathSpec(include, localPath, branch, exclude) ==
    [Include |-> include, LocalPath |-> localPath, Branch |-> branch,
     Exclude |-> exclude]

\* r.source.Paths, without the Files maps (those are cfg)
Paths(s) ==
    IF s = "s1"
    THEN <<PathSpec(IncD, Dot, "r1", excludeA),
           PathSpec(IncH, LocalWH, "r1", <<>>)>>
    ELSE <<PathSpec(IncH, <<>>, "r2", <<>>)>>

NumPaths(s) == IF s = "s1" THEN 2 ELSE 1

PathIds == {<<s, i>> : s \in SourceNames, i \in 1..2} \ {<<"s2", 2>>}

\* CopyPaths: "use specified path or default to same as source"
LocalPathOf(ps) == IF ps.LocalPath = <<>> THEN ps.Include ELSE ps.LocalPath

ReadFs(f, p) == IF p \in DOMAIN f THEN f[p] ELSE NoFile

HasPrefixDir(p, dir) ==
    Len(p) > Len(dir) + 1 /\ SubSeq(p, 1, Len(dir) + 1) = dir \o <<Slash>>

\* os.Stat(sourcePath) on the checked-out tree
IsDir(tree, include) ==
    \E p \in RepoPaths : HasPrefixDir(p, include) /\ tree[p] # NoFile

SourceExists(tree, include) ==
    IsDir(tree, include) \/ ReadFs(tree, include) # NoFile

\* the files filepath.Walk(sourcePath) visits, relative to sourcePath, in order
WalkFiles(tree, include) ==
    SelectSeq(WalkOrder, LAMBDA rel : ReadFs(tree, Join(include, rel)) # NoFile)

(***************************************************************************)
(* The reconciliation engine (part_003: processPath and what it calls).    *)
(*                                                                         *)
(* An input record `in` carries processPathInput and the state the calls   *)
(* read: ps (the PathSpec), source, Files (ps.Files), isDir, tree (the     *)
(* checked-out tree of the clone), fs, snapshot (the base snapshot of      *)
(* (source, include)), mode, dry (logger.IsDryRun), and the injected I/O   *)
(* failures: rf, the relative paths whose remote read fails, and wf, the   *)
(* destination paths whose write fails.                                    *)
(***************************************************************************)
SourcePathOf(in, rel) ==
    IF in.isDir THEN Join(in.ps.Include, rel) ELSE in.ps.Include

DestOf(in, rel) ==
    IF in.isDir THEN Join(LocalPathOf(in.ps), rel) ELSE LocalPathOf(in.ps)

RemoteBytes(in, rel) == ReadFs(in.tree, SourcePathOf(in, rel))

LocalBytes(in, rel) == ReadFs(in.fs, DestOf(in, rel))

FileName(in) == Base(in.ps.Include)

\* contentDiffersFromRemote: the walk stops at the first file that is
\* missing locally (differs), unreadable remotely (walk error, result so
\* far) or different (differs).  No exclude is applied.
contentDiffersFromRemote(in) ==
    IF in.isDir
    THEN LET files == WalkFiles(in.tree, in.ps.Include)
             stops == {i \in DOMAIN files :
                          \/ LocalBytes(in, files[i]) = NoFile
                          \/ files[i] \in in.rf
                          \/ LocalBytes(in, files[i]) # RemoteBytes(in, files[i])}
         IN  IF stops = {} THEN FALSE
             ELSE LET i == CHOOSE k \in stops : \A j \in stops : k <= j
                  IN  \/ LocalBytes(in, files[i]) = NoFile
                      \/ files[i] \notin in.rf
    ELSE IF LocalBytes(in, FileName(in)) = NoFile THEN TRUE
    ELSE IF FileName(in) \in in.rf THEN FALSE
    ELSE LocalBytes(in, FileName(in)) # RemoteBytes(in, FileName(in))

\* copyPath / copyDir / copyFile: [fs, err].  A directory copy stops at the
\* first file whose read or write fails; what was copied before stays.
copyPath(in) ==
    IF in.dry THEN [fs |-> in.fs, err |-> FALSE]
    ELSE IF in.isDir
    THEN LET files == SelectSeq(WalkFiles(in.tree, in.ps.Include),
                                LAMBDA rel : ~CopyDirSkips(rel, in.ps.Exclude))
             bad == {i \in DOMAIN files :
                        files[i] \in in.rf \/ DestOf(in, files[i]) \in in.wf}
             stop == IF bad = {} THEN Len(files) + 1
                     ELSE CHOOSE k \in bad : \A j \in bad : k <= j
             copied == {files[i] : i \in 1..(stop - 1)}
         IN  [fs |-> [p \in FsKeys |->
                        IF \E rel \in copied : DestOf(in, rel) = p
                        THEN RemoteBytes(in, CHOOSE rel \in copied :
                                                 DestOf(in, rel) = p)
                        ELSE in.fs[p]],
              err |-> bad # {}]
    ELSE IF FileName(in) \in in.rf \/ DestOf(in, FileName(in)) \in in.wf
    THEN [fs |-> in.fs, err |-> TRUE]
    ELSE [fs |-> [in.fs EXCEPT ![DestOf(in, FileName(in))] =
                      RemoteBytes(in, FileName(in))],
          err |-> FALSE]

\* hash.HashDirectory: every file of the remote directory the hasher does not
\* exclude; any read error gives no map at all.
HashDirectory(in) ==
    LET files == {rel \in Range(WalkFiles(in.tree, in.ps.Include)) :
                     ~HasherShouldExclude(rel, in.ps.Exclude)}
    IN  IF files \cap in.rf # {} THEN EmptyHashes
        ELSE [k \in RelKeys |->
                 IF k \in files THEN HashBytes(RemoteBytes(in, k)) ELSE NoHash]

\* calculateHashes hashes the SOURCE path (the remote files).
calculateHashes(in) ==
    IF in.isDir THEN HashDirectory(in)
    ELSE IF FileName(in) \in in.rf THEN EmptyHashes
    ELSE [k \in RelKeys |->
             IF k = FileName(in) THEN HashBytes(RemoteBytes(in, k)) ELSE NoHash]

Conflict(path, type) == [Path |-> path, Type |-> type]

\* hash.VerifyFileIntegrity(baseDir, expectedHashes)
VerifyFileIntegrity(f, baseDir, expected) ==
    {Conflict(k, ConflictTypeDeleted) :
        k \in {x \in DOMAIN expected :
                  expected[x] # NoHash /\ ReadFs(f, Join(baseDir, x)) = NoFile}}
    \cup
    {Conflict(k, ConflictTypeModified) :
        k \in {x \in DOMAIN expected :
                  /\ expected[x] # NoHash
                  /\ ReadFs(f, Join(baseDir, x)) # NoFile
                  /\ HashBytes(ReadFs(f, Join(baseDir, x))) # expected[x]}}

\* getFileConflicts (Detect mode)
getFileConflicts(in) ==
    IF in.isDir
    THEN {Conflict(rel, ConflictTypeModified) :
             rel \in {r \in Range(WalkFiles(in.tree, in.ps.Include)) :
                         /\ LocalBytes(in, r) # NoFile
                         /\ LocalBytes(in, r) # RemoteBytes(in, r)}}
    ELSE {Conflict(Base(LocalPathOf(in.ps)), ConflictTypeModified)}

\* One iteration of the loop of mergeDirectory, or the body of mergeFile:
\* what is decided for one file.  write = NoFile means nothing is written.
Decision(write, hash, conflict, merger, failed) ==
    [write |-> write, hash |-> hash, conflict |-> conflict, merger |-> merger,
     failed |-> failed]

\* both sides changed: what is decided from the result m of ThreeWayMerge
mergedDecision(in, rel, m) ==
    IF m.HasConflict
    THEN Decision(NoFile, NoHash, TRUE, TRUE, FALSE)
    ELSE IF ~in.dry /\ DestOf(in, rel) \in in.wf
    THEN Decision(NoFile, NoHash, FALSE, TRUE, TRUE)
    ELSE Decision(IF in.dry THEN NoFile ELSE m.Content,
                  HashBytes(m.Content), FALSE, TRUE, FALSE)

mergeOneFile(in, baseContent, rel) ==
    LET remoteContent == RemoteBytes(in, rel)
        localContent  == LocalBytes(in, rel)
        base          == ReadFs(baseContent, rel)
    IN  IF rel \in in.rf
        THEN Decision(NoFile, NoHash, FALSE, FALSE, TRUE)
        ELSE IF localContent = NoFile
        THEN Decision(remoteContent, HashBytes(remoteContent), FALSE, FALSE, FALSE)
        ELSE IF base = NoFile
        THEN IF localContent = remoteContent
             THEN Decision(NoFile, HashBytes(remoteContent), FALSE, FALSE, FALSE)
             ELSE Decision(NoFile, NoHash, TRUE, FALSE, FALSE)
        ELSE IF localContent = base
        THEN Decision(remoteContent, HashBytes(remoteContent), FALSE, FALSE, FALSE)
        ELSE IF remoteContent = base
        THEN Decision(NoFile, HashBytes(localContent), FALSE, FALSE, FALSE)
        ELSE mergedDecision(in, rel,
                            ThreeWayMerge(base, localContent, remoteContent))

\* the decisions for the files of `rels`
Decisions(in, baseContent, rels) ==
    [rel \in rels |-> mergeOneFile(in, baseContent, rel)]

\* the working tree after the writes decided for the files of `rels`; a
\* write to a path of wf fails and leaves the path as it was.  In mergeFile
\* the copy of a missing local file goes through copyPath, a no-op in a dry
\* run; every other write of a decision is done whatever the dry-run flag.
ApplyWrites(in, d) ==
    [p \in FsKeys |->
        IF /\ p \notin in.wf
           /\ \E rel \in DOMAIN d : /\ DestOf(in, rel) = p
                                    /\ d[rel].write # NoFile
                                    /\ ~(~in.isDir /\ in.dry /\ in.fs[p] = NoFile)
        THEN d[CHOOSE rel \in DOMAIN d : DestOf(in, rel) = p].write
        ELSE in.fs[p]]

Outcome(updated, newHashes, conflicts, f, merger) ==
    [updated |-> updated, newHashes |-> newHashes, conflicts |-> conflicts,
     fs |-> f, merger |-> merger]

\* history only: whether a remote read or a destination write of the files
\* `rels` really failed while they were merged
MergeIoFailed(in, d) ==
    \E rel \in DOMAIN d :
        \/ rel \in in.rf
        \/ d[rel].failed
        \/ /\ d[rel].write # NoFile
           /\ DestOf(in, rel) \in in.wf
           /\ ~(~in.isDir /\ in.dry /\ in.fs[DestOf(in, rel)] = NoFile)

\* the files mergeDirectory walks
MergedFiles(in) ==
    {rel \in Range(WalkFiles(in.tree, in.ps.Include)) :
        ~ShouldExclude(rel, in.ps.Exclude)}

\* mergeDirectory once the loop has decided d[rel] for every file
mergeDirectoryResult(in, d) ==
    LET conflicts == {Conflict(rel, ConflictTypeModified) :
                         rel \in {r \in DOMAIN d : d[r].conflict}}
    IN  Outcome(conflicts = {},
                [k \in RelKeys |-> IF k \in DOMAIN d THEN d[k].hash ELSE NoHash],
                conflicts,
                ApplyWrites(in, d),
                {rel \in DOMAIN d : d[rel].merger})

mergeDirectory(in, baseContent) ==
    mergeDirectoryResult(in, Decisions(in, baseContent, MergedFiles(in)))

\* mergeFile once d[fileName] is decided
mergeFileResult(in, fileName, d) ==
    IF d[fileName].failed
    THEN Outcome(FALSE, EmptyHashes, {}, in.fs,
                 IF d[fileName].merger THEN {fileName} ELSE {})
    ELSE Outcome(~d[fileName].conflict,
                 [k \in RelKeys |->
                     IF k = fileName THEN d[fileName].hash ELSE NoHash],
                 IF d[fileName].conflict
                 THEN {Conflict(fileName, ConflictTypeModified)} ELSE {},
                 ApplyWrites(in, d),
                 IF d[fileName].merger THEN {fileName} ELSE {})

mergeFile(in, baseContent) ==
    mergeFileResult(in, FileName(in),
                    Decisions(in, baseContent, {FileName(in)}))

attemptMerge(in) ==
    IF ~in.snapshot.exists
    THEN Outcome(FALSE, EmptyHashes,
                 VerifyFileIntegrity(in.fs,
                     IF in.isDir THEN LocalPathOf(in.ps)
                     ELSE Dir(LocalPathOf(in.ps)),
                     in.Files),
                 in.fs, {})
    ELSE IF in.isDir THEN mergeDirectory(in, in.snapshot.files)
    ELSE mergeFile(in, in.snapshot.files)

\* processPath, case SyncModeForce
processForce(in) ==
    LET c == copyPath(in)
    IN  IF c.err THEN Outcome(FALSE, EmptyHashes, {}, c.fs, {})
        ELSE Outcome(TRUE, calculateHashes(in), {}, c.fs, {})

\* processPath, case SyncModeMerge, SyncModeBranch: what is kept of the result
\* m of attemptMerge
mergeOutcome(m) ==
    IF m.conflicts # {}
    THEN Outcome(FALSE, EmptyHashes, m.conflicts, m.fs, m.merger)
    ELSE IF m.updated THEN m
    ELSE Outcome(FALSE, EmptyHashes, {}, m.fs, m.merger)

\* processMerge keeping the merge result of a PathSpec that has conflicts
processMergeKeepsPartialResult(in) ==
    LET m == attemptMerge(in)
    IN  IF m.conflicts # {}
        THEN Outcome(TRUE, m.newHashes, m.conflicts, m.fs, m.merger)
        ELSE IF m.updated THEN m
        ELSE Outcome(FALSE, EmptyHashes, {}, m.fs, m.merger)

\* processPath, case SyncModeMerge, SyncModeBranch
processMerge(in) == mergeOutcome(attemptMerge(in))

\* processPath reporting an update, with no hashes, when nothing differs
processPathEqualCountsAsUpdate(in) ==
    IF ~contentDiffersFromRemote(in)
    THEN Outcome(TRUE, EmptyHashes, {}, in.fs, {})
    ELSE IF in.mode = SyncModeForce THEN processForce(in)
    ELSE processMerge(in)

\* processPath with the Detect case falling through to the Force case
processPathDetectFallsThrough(in) ==
    IF ~contentDiffersFromRemote(in)
    THEN Outcome(FALSE, calculateHashes(in), {}, in.fs, {})
    ELSE IF in.mode \in {SyncModeDetect, SyncModeForce} THEN processForce(in)
    ELSE processMerge(in)

processPath(in) ==
    IF ~contentDiffersFromRemote(in)
    THEN Outcome(FALSE, calculateHashes(in), {}, in.fs, {})
    ELSE IF in.mode = SyncModeDetect
    THEN Outcome(FALSE, EmptyHashes, getFileConflicts(in), in.fs, {})
    ELSE IF in.mode = SyncModeForce THEN processForce(in)
    ELSE processMerge(in)

\* readRemoteFiles: the remote bytes keyed by the LOCAL path of each file
readRemoteFiles(in) ==
    IF ~in.isDir
    THEN [p \in FsKeys |->
             IF p = LocalPathOf(in.ps) /\ FileName(in) \notin in.rf
             THEN RemoteBytes(in, FileName(in)) ELSE NoFile]
    ELSE LET files == {rel \in Range(WalkFiles(in.tree, in.ps.Include)) :
                          ~ShouldExclude(rel, in.ps.Exclude) /\ rel \notin in.rf}
         IN  [p \in FsKeys |->
                 IF \E rel \in files : Join(LocalPathOf(in.ps), rel) = p
                 THEN RemoteBytes(in, CHOOSE rel \in files :
                                          Join(LocalPathOf(in.ps), rel) = p)
                 ELSE NoFile]

\* history only: whether a remote read or a destination write really failed
\* in processPath
IoFailed(in) ==
    LET files == WalkFiles(in.tree, in.ps.Include)
        stops == {i \in DOMAIN files :
                     \/ LocalBytes(in, files[i]) = NoFile
                     \/ files[i] \in in.rf
                     \/ LocalBytes(in, files[i]) # RemoteBytes(in, files[i])}
        first == CHOOSE k \in stops : \A j \in stops : k <= j
        probeFailed ==
            IF in.isDir
            THEN stops # {} /\ LocalBytes(in, files[first]) # NoFile
                 /\ files[first] \in in.rf
            ELSE LocalBytes(in, FileName(in)) # NoFile /\ FileName(in) \in in.rf
        hashed == IF in.isDir
                  THEN {rel \in Range(files) :
                           ~HasherShouldExclude(rel, in.ps.Exclude)}
                  ELSE {FileName(in)}
        merged == IF in.isDir THEN MergedFiles(in) ELSE {FileName(in)}
    IN  \/ probeFailed
        \/ /\ contentDiffersFromRemote(in)
           /\ in.mode = SyncModeForce
           /\ copyPath(in).err \/ hashed \cap in.rf # {}
        \/ /\ contentDiffersFromRemote(in)
           /\ in.mode \in {SyncModeMerge, SyncModeBranch}
           /\ in.snapshot.exists
           /\ MergeIoFailed(in, Decisions(in, in.snapshot.files, merged))

(***************************************************************************)
(* The base snapshot store (part_002).                                     *)
(***************************************************************************)
HasSnapshot(st, sourceName, include) == st[sourceName][include].exists

GetSnapshot(st, sourceName, include) == st[sourceName][include].files

\* SaveSnapshot writing into the old directory without removing it
SaveSnapshotKeepsOld(st, sourceName, include, files) ==
    [st EXCEPT ![sourceName][include] =
        [exists |-> TRUE,
         files |-> [p \in FsKeys |-> IF files[p] # NoFile THEN files[p]
                                     ELSE @.files[p]]]]

\* SaveSnapshot removes the old directory, recreates it and writes the files.
SaveSnapshot(st, sourceName, include, files) ==
    [st EXCEPT ![sourceName][include] = [exists |-> TRUE, files |-> files]]

\* What a failing SaveSnapshot may leave: the old snapshot (RemoveAll
\* failed), no snapshot (MkdirAll failed) or a directory holding only some
\* of the files (a write failed).
SaveSnapshotFailures(st, sourceName, include, files) ==
    {st, [st EXCEPT ![sourceName][include] = NoSnapshot]}
    \cup
    {[st EXCEPT ![sourceName][include] =
         [exists |-> TRUE,
          files |-> [p \in FsKeys |-> IF p \in K THEN files[p] ELSE NoFile]]] :
        K \in (SUBSET {p \in FsKeys : files[p] # NoFile})
              \ {{p \in FsKeys : files[p] # NoFile}}}

\* DeleteSnapshot in the place of DeleteSourceSnapshots: only the snapshot
\* of the directory d goes
DeleteSourceSnapshotsOnlyD(st, sourceName) ==
    [st EXCEPT ![sourceName][IncD] = NoSnapshot]

\* DeleteSourceSnapshots: os.RemoveAll of the directory of the source
DeleteSourceSnapshots(st, sourceName) ==
    [st EXCEPT ![sourceName] = [inc \in Includes |-> NoSnapshot]]

\* CleanOrphanedSnapshots: os.RemoveAll of every directory of the store whose
\* name is not in validSources
CleanOrphanedSnapshots(st, validSources) ==
    [s \in SourceNames |->
        IF s \in Range(validSources) THEN st[s]
        ELSE [inc \in Includes |-> NoSnapshot]]

\* What a failing os.RemoveAll of the directories of the sources in gone may
\* leave: each of their snapshots is still there or removed.
RemoveAllFailures(st, gone) ==
    {[s \in SourceNames |->
         [inc \in Includes |->
             IF <<s, inc>> \in K THEN NoSnapshot ELSE st[s][inc]]] :
        K \in SUBSET (gone \X Includes)}

(***************************************************************************)
(* State.                                                                  *)
(***************************************************************************)
NoRun == [kind |-> "none", mode |-> SyncModeDetect, dry |-> FALSE, target |-> "s1"]

OriginalBranch == "main"

\* SyncResult.Error
NoError == "nil"
ErrInitialize == "failed to initialize repository"
ErrConflicts == "merge conflicts detected, sync aborted"

\* with what CreateConflictBranch read (OriginalBranch) and returned: the
\* operations of it that failed and the errors its error value reports
NoResult == [UpdatedPaths |-> <<>>, Conflicts |-> {}, BranchCreated |-> FALSE,
             Error |-> NoError, OriginalBranch |-> OriginalBranch,
             BranchFailed |-> {}, BranchReported |-> {}]

NoHist == [status |-> "none"]

NoCommit == [made |-> FALSE, paths |-> {}]

EmptyCfg == [s \in SourceNames |-> [i \in 1..NumPaths(s) |-> EmptyHashes]]

NoStart ==
    [events |-> 0, fs |-> EmptyFiles, cfg |-> EmptyCfg, disk |-> EmptyCfg,
     snap |-> [s \in SourceNames |-> [inc \in Includes |-> NoSnapshot]],
     remote |-> [r \in Refs |-> [p \in RepoPaths |-> <<1>>]],
     head |-> OriginalBranch, committed |-> EmptyFiles]

Stores ==
    [events |-> eventsLeft, fs |-> fs, cfg |-> cfg, disk |-> disk,
     snap |-> snap, remote |-> remote, head |-> head, committed |-> committed]

InitRuns(exclude, auto, events, runs) ==
    /\ excludeA = exclude
    /\ autoCommit = auto
    /\ remote = [r \in Refs |-> [p \in RepoPaths |-> <<1>>]]
    /\ clone = "r1"
    /\ fs = EmptyFiles
    /\ snap = [s \in SourceNames |-> [inc \in Includes |-> NoSnapshot]]
    /\ cfg = EmptyCfg
    /\ disk = EmptyCfg
    /\ run = NoRun
    /\ pc = [s \in SourceNames |-> "idle"]
    /\ idx = [s \in SourceNames |-> 1]
    /\ res = [s \in SourceNames |-> NoResult]
    /\ conflictFiles = [s \in SourceNames |-> EmptyFiles]
    /\ results = <<>>
    /\ closed = FALSE
    /\ collected = {}
    /\ head = OriginalBranch
    /\ committed = EmptyFiles
    /\ branches = {}
    /\ commits = [s \in SourceNames |-> NoCommit]
    /\ runsLeft = runs
    /\ eventsLeft = events
    /\ start = NoStart
    /\ hist = [s \in SourceNames |-> [i \in 1..NumPaths(s) |-> NoHist]]

InitWith(exclude, auto, events) == InitRuns(exclude, auto, events, MaxRuns)

\* DefaultConfig: auto_commit is on
\* no call of ThreeWayMerge on its own
NoCall ==
    [base |-> <<>>, local |-> <<>>, remote |-> <<>>, state |-> "none",
     lineMerger |-> FALSE, result |-> MergeResult(FALSE, <<>>, FALSE)]

Init ==
    /\ \E exclude \in ExcludeChoices : InitWith(exclude, TRUE, MaxEvents)
    /\ branchPrefix = DefaultBranchPrefix
    /\ call = NoCall

(***************************************************************************)
(* The environment between two commands: the remote repository receives a  *)
(* commit, the user edits or deletes a file of the working tree.           *)
(***************************************************************************)
Quiet == run.kind = "none"

EditableRemote == {<<"r1", Join(IncD, RelA)>>, <<"r1", IncH>>}

\* the files of the working tree the user edits or deletes
EditableLocal == {RelA, LocalWH}

\* the PathSpecs whose destination covers the path p
Covering(p) ==
    {id \in PathIds :
        LET ps == Paths(id[1])[id[2]]
        IN  \/ LocalPathOf(ps) = p
            \/ ps.Include = IncD /\ p \in {Join(LocalPathOf(ps), RelA),
                                           Join(LocalPathOf(ps), RelTB)}}

RemoteCommit(ref, path, content) ==
    /\ Quiet
    /\ eventsLeft > 0 /\ runsLeft > 0
    /\ remote[ref][path] # content
    /\ remote' = [remote EXCEPT ![ref][path] = content]
    /\ eventsLeft' = eventsLeft - 1
    /\ UNCHANGED <<call, excludeA, branchPrefix, autoCommit, clone, fs, snap, cfg, disk, run, pc,
                   idx, res, conflictFiles, results, closed, collected, head,
                   committed, branches, commits, runsLeft, start,
                   hist>>

LocalEdit(path, content) ==
    /\ Quiet
    /\ eventsLeft > 0 /\ runsLeft > 0
    /\ fs[path] # content
    /\ fs' = [fs EXCEPT ![path] = content]
    /\ eventsLeft' = eventsLeft - 1
    /\ UNCHANGED <<call, excludeA, branchPrefix, autoCommit, remote, clone, snap, cfg, disk, run,
                   pc, idx, res, conflictFiles, results, closed, collected,
                   head, committed, branches, commits, runsLeft,
                   start, hist>>

\* the user commits the working tree on the original branch (git add -A,
\* git commit)
UserCommit ==
    /\ Quiet
    /\ eventsLeft > 0 /\ runsLeft > 0
    /\ head = OriginalBranch
    /\ committed # fs
    /\ committed' = fs
    /\ eventsLeft' = eventsLeft - 1
    /\ UNCHANGED <<call, excludeA, branchPrefix, autoCommit, remote, clone, fs, snap, cfg, disk, run,
                   pc, idx, res, conflictFiles, results, closed, collected,
                   head, branches, commits, runsLeft, start, hist>>

(***************************************************************************)
(* The commands: sync <name> (syncSingleSource, also performInitialSync)   *)
(* and sync --all (syncAllSources).                                        *)
(***************************************************************************)
StartRun(kind, target, mode, dry) ==
    /\ Quiet
    /\ runsLeft > 0
    /\ runsLeft' = runsLeft - 1
    /\ run' = [kind |-> kind, mode |-> mode, dry |-> dry, target |-> target]
    /\ pc' = [s \in SourceNames |->
                 IF kind = "all" \/ s = target THEN "init" ELSE "idle"]
    /\ idx' = [s \in SourceNames |-> 1]
    /\ res' = [s \in SourceNames |-> NoResult]
    /\ conflictFiles' = [s \in SourceNames |-> EmptyFiles]
    /\ results' = <<>>
    /\ closed' = FALSE
    /\ collected' = {}
    /\ commits' = [s \in SourceNames |-> NoCommit]
    /\ start' = Stores
    /\ hist' = [s \in SourceNames |-> [i \in 1..NumPaths(s) |-> NoHist]]
    /\ UNCHANGED <<call, excludeA, branchPrefix, autoCommit, remote, clone, fs, snap, cfg, disk,
                   head, committed, branches, eventsLeft>>

syncSingleSource(name, mode, dry) == StartRun("one", name, mode, dry)

syncAllSources(mode, dry) == StartRun("all", "s1", mode, dry)

\* syncSource, lines 214-233: NewRepository, Pull, GetLatestCommit
OpenRepository(s) ==
    /\ pc[s] = "init"
    /\ \E ok \in BOOLEAN :
        /\ ~ok => eventsLeft > 0
        /\ eventsLeft' = IF ok THEN eventsLeft ELSE eventsLeft - 1
        /\ res' = [res EXCEPT ![s].Error = IF ok THEN NoError ELSE ErrInitialize]
        /\ pc' = [pc EXCEPT ![s] = IF ok THEN "checkout" ELSE "send"]
    /\ UNCHANGED <<call, excludeA, branchPrefix, autoCommit, remote, clone, fs, snap, cfg, disk,
                   run, idx, conflictFiles, results, closed, collected, head,
                   committed, branches, commits, runsLeft, start,
                   hist>>

\* where the loop of CopyPaths goes after PathSpec idx[s]
AfterLoop == IF run.mode = SyncModeBranch THEN "branch" ELSE "save"

NextPc(s) == IF idx[s] < NumPaths(s) THEN "checkout" ELSE AfterLoop

NextIdx(s) == IF idx[s] < NumPaths(s) THEN idx[s] + 1 ELSE idx[s]

\* checkoutBranch with a failed checkout leaving the loop (break for continue)
checkoutBranchLeavesLoop(s) ==
    /\ pc[s] = "checkout"
    /\ \E ok \in BOOLEAN :
        /\ ~ok => eventsLeft > 0 /\ ~run.dry
        /\ eventsLeft' = IF ok THEN eventsLeft ELSE eventsLeft - 1
        /\ clone' = IF ok /\ ~run.dry THEN Paths(s)[idx[s]].Branch ELSE clone
        /\ pc' = [pc EXCEPT ![s] = IF ok THEN "process" ELSE AfterLoop]
        /\ idx' = idx
        /\ hist' = [hist EXCEPT ![s][idx[s]] =
                       [status |-> IF ok THEN "checkedOut" ELSE "checkoutFailed"]]
    /\ UNCHANGED <<call, excludeA, branchPrefix, autoCommit, remote, fs, snap, cfg, disk, run, res,
                   conflictFiles, results, closed, collected, head, committed,
                   branches, commits, runsLeft, start>>

\* CopyPaths, lines 343-348: checkoutBranch; a dry run checks nothing out
checkoutBranch(s) ==
    /\ pc[s] = "checkout"
    /\ \E ok \in BOOLEAN :
        /\ ~ok => eventsLeft > 0 /\ ~run.dry
        /\ eventsLeft' = IF ok THEN eventsLeft ELSE eventsLeft - 1
        /\ clone' = IF ok /\ ~run.dry THEN Paths(s)[idx[s]].Branch ELSE clone
        /\ pc' = [pc EXCEPT ![s] = IF ok THEN "process" ELSE NextPc(s)]
        /\ idx' = [idx EXCEPT ![s] = IF ok THEN idx[s] ELSE NextIdx(s)]
        /\ hist' = [hist EXCEPT ![s][idx[s]] =
                       [status |-> IF ok THEN "checkedOut" ELSE "checkoutFailed"]]
    /\ UNCHANGED <<call, excludeA, branchPrefix, autoCommit, remote, fs, snap, cfg, disk, run, res,
                   conflictFiles, results, closed, collected, head, committed,
                   branches, commits, runsLeft, start>>

\* the input of processPath for PathSpec i of source s, read from the state
Input(s, i, rf, wf) ==
    [ps |-> Paths(s)[i], source |-> s, Files |-> cfg[s][i],
     isDir |-> IsDir(remote[clone], Paths(s)[i].Include),
     tree |-> remote[clone], fs |-> fs,
     snapshot |-> snap[s][Paths(s)[i].Include],
     mode |-> run.mode, dry |-> run.dry, rf |-> rf, wf |-> wf]

\* the remote files and the destination paths PathSpec i of s may touch
RemoteRels(s, i) ==
    IF IsDir(remote[clone], Paths(s)[i].Include)
    THEN Range(WalkFiles(remote[clone], Paths(s)[i].Include))
    ELSE {Base(Paths(s)[i].Include)}

DestPaths(s, i) ==
    {p \in FsKeys : <<s, i>> \in Covering(p)}

\* conflictFiles[k] = v for every k, v of remoteFiles
Overlay(old, new) == [p \in FsKeys |-> IF new[p] # NoFile THEN new[p] ELSE old[p]]

\* CopyPaths, lines 350-413: one iteration of the loop once the checkout
\* succeeded.  A missing source path skips the PathSpec.
SkipMissing(s) ==
    /\ pc[s] = "process"
    /\ ~SourceExists(remote[clone], Paths(s)[idx[s]].Include)
    /\ hist' = [hist EXCEPT ![s][idx[s]] = [status |-> "missing"]]
    /\ pc' = [pc EXCEPT ![s] = NextPc(s)]
    /\ idx' = [idx EXCEPT ![s] = NextIdx(s)]
    /\ UNCHANGED <<call, excludeA, branchPrefix, autoCommit, remote, clone, fs, snap, cfg, disk,
                   run, res, conflictFiles, results, closed, collected, head,
                   committed, branches, commits, runsLeft, eventsLeft, start>>

\* the effects of processPath on PathSpec i of s: in is its input, out its
\* result, remoteFiles what readRemoteFiles returns
ApplyResult(s, i, in, out, remoteFiles, ioFailed, differs) ==
    LET saves == out.updated /\ ~run.dry
        used == Cardinality(in.rf) + Cardinality(in.wf)
    IN  /\ used <= eventsLeft
        /\ fs' = out.fs
        /\ res' = [res EXCEPT
               ![s].Conflicts = @ \cup out.conflicts,
               ![s].UpdatedPaths =
                   IF out.updated THEN Append(@, in.ps.Include) ELSE @]
        /\ conflictFiles' =
               IF out.conflicts # {} /\ run.mode = SyncModeBranch
               THEN [conflictFiles EXCEPT ![s] = Overlay(@, remoteFiles)]
               ELSE conflictFiles
        /\ cfg' = IF out.updated THEN [cfg EXCEPT ![s][i] = out.newHashes]
                  ELSE cfg
        /\ \/ /\ snap' = IF saves
                         THEN SaveSnapshot(snap, s, in.ps.Include, remoteFiles)
                         ELSE snap
              /\ eventsLeft' = eventsLeft - used
           \/ /\ saves
              /\ used < eventsLeft
              /\ snap' \in SaveSnapshotFailures(snap, s, in.ps.Include,
                                                remoteFiles)
              /\ eventsLeft' = eventsLeft - used - 1
        /\ hist' = [hist EXCEPT ![s][i] =
               [status |-> "processed", in |-> in, out |-> out,
                ioFailed |-> ioFailed, snap |-> snap'[s][in.ps.Include],
                saveFailed |-> saves /\ snap'[s][in.ps.Include] #
                    [exists |-> TRUE, files |-> remoteFiles],
                differs |-> differs]]

ProcessInput(s, i, in) ==
    ApplyResult(s, i, in, processPath(in), readRemoteFiles(in), IoFailed(in),
                contentDiffersFromRemote(in))

ProcessPathSpec(s) ==
    /\ pc[s] = "process"
    /\ SourceExists(remote[clone], Paths(s)[idx[s]].Include)
    /\ \E rf \in SUBSET RemoteRels(s, idx[s]), wf \in SUBSET DestPaths(s, idx[s]) :
           ProcessInput(s, idx[s], Input(s, idx[s], rf, wf))
    /\ pc' = [pc EXCEPT ![s] = NextPc(s)]
    /\ idx' = [idx EXCEPT ![s] = NextIdx(s)]
    /\ UNCHANGED <<call, excludeA, branchPrefix, autoCommit, remote, clone, disk, run, results,
                   closed, collected, head, committed, branches, commits,
                   runsLeft, start>>

(***************************************************************************)
(* The conflict branch manager (internal/git/conflict_branch.go) and the   *)
(* end of CopyPaths, lines 416-432.                                        *)
(***************************************************************************)
\* go-git refuses to reset the working tree (Checkout without Force) when a
\* tracked file has unstaged changes; untracked files do not count.
Unstaged(f) == \E p \in FsKeys : committed[p] # NoFile /\ f[p] # committed[p]

BranchWanted(s) ==
    /\ run.mode = SyncModeBranch
    /\ res[s].Conflicts # {}
    /\ conflictFiles[s] # EmptyFiles

\* no branch is asked for
NoConflictBranch(s) ==
    /\ pc[s] = "branch"
    /\ ~BranchWanted(s)
    /\ pc' = [pc EXCEPT ![s] = "save"]
    /\ UNCHANGED <<call, excludeA, branchPrefix, autoCommit, remote, clone, fs, snap, cfg, disk,
                   run, idx, res, conflictFiles, results, closed, collected,
                   head, committed, branches, commits, runsLeft, eventsLeft, start, hist>>

\* the errors of CreateConflictBranch
ErrHead == "failed to get HEAD"
ErrCreateBranch == "failed to create branch"
ErrWriteFile == "failed to write file"
ErrCheckoutBack == "failed to checkout back"

\* the conflict branch of the Source s, holding the commit of `files`
Branch(s, files) ==
    [source |-> s, files |-> files, name |-> DefaultBranchPrefix \o <<Slash, s>>]

\* CreateConflictBranch, lines 24-54.  HEAD is read (originalBranch), the
\* branch is created and HEAD set to it, then the working tree is reset: the
\* reset is refused when a tracked file has unstaged changes, and the call
\* returns with HEAD on the new branch.
BeginConflictBranch(s) ==
    /\ pc[s] = "branch"
    /\ BranchWanted(s)
    /\ \/ \* the repository or HEAD cannot be read
          /\ eventsLeft > 0
          /\ eventsLeft' = eventsLeft - 1
          /\ res' = [res EXCEPT ![s].BranchFailed = {ErrHead},
                                ![s].BranchReported = {ErrHead}]
          /\ pc' = [pc EXCEPT ![s] = "save"]
          /\ UNCHANGED <<head, branches>>
       \/ /\ Unstaged(fs)
          /\ head' = s
          /\ branches' = branches \cup {Branch(s, EmptyFiles)}
          /\ res' = [res EXCEPT ![s].OriginalBranch = head,
                                ![s].BranchFailed = {ErrCreateBranch},
                                ![s].BranchReported = {ErrCreateBranch}]
          /\ pc' = [pc EXCEPT ![s] = "save"]
          /\ UNCHANGED eventsLeft
       \/ /\ ~Unstaged(fs)
          /\ head' = s
          /\ branches' = branches \cup {Branch(s, EmptyFiles)}
          /\ res' = [res EXCEPT ![s].OriginalBranch = head]
          /\ pc' = [pc EXCEPT ![s] = "onbranch"]
          /\ UNCHANGED eventsLeft
    /\ UNCHANGED <<call, excludeA, branchPrefix, autoCommit, remote, clone, fs, snap, cfg, disk, run,
                   idx, conflictFiles, results, closed, collected, committed,
                   commits, runsLeft, start, hist>>

\* the working tree with the files of the conflict branch written
WithBranchFiles(s) ==
    [p \in FsKeys |->
        IF conflictFiles[s][p] # NoFile THEN conflictFiles[s][p] ELSE fs[p]]

\* a tracked file outside the conflict branch's commit differs from the
\* index: the checkout of the original branch is refused
DirtyOnBranch(s) ==
    \E p \in FsKeys : /\ committed[p] # NoFile
                      /\ conflictFiles[s][p] = NoFile
                      /\ fs[p] # committed[p]

\* CreateConflictBranch, lines 56-110.  The files are written, staged and
\* committed; then the original branch is checked out again, which sets HEAD
\* and restores every file of the commit to what the original branch holds
\* (a file the original branch does not hold is removed).  When a write
\* fails the checkout is attempted and its error dropped.
FinishConflictBranch(s) ==
    /\ pc[s] = "onbranch"
    /\ \/ \* a file cannot be written; the original branch is checked out
          /\ eventsLeft > 0
          /\ eventsLeft' = eventsLeft - 1
          /\ head' = res[s].OriginalBranch
          /\ res' = [res EXCEPT ![s].BranchFailed = {ErrWriteFile},
                                ![s].BranchReported = {ErrWriteFile}]
          /\ UNCHANGED <<fs, branches>>
       \/ \* a file cannot be written, and the checkout fails as well
          /\ eventsLeft > 0
          /\ eventsLeft' = eventsLeft - 1
          /\ res' = [res EXCEPT
                 ![s].BranchFailed = {ErrWriteFile, ErrCheckoutBack},
                 ![s].BranchReported = {ErrWriteFile}]
          /\ UNCHANGED <<fs, head, branches>>
       \/ \* committed, but the reset to the original branch is refused
          /\ DirtyOnBranch(s)
          /\ branches' = (branches \ {Branch(s, EmptyFiles)})
                             \cup {Branch(s, conflictFiles[s])}
          /\ head' = res[s].OriginalBranch
          /\ fs' = WithBranchFiles(s)
          /\ res' = [res EXCEPT ![s].BranchFailed = {ErrCheckoutBack},
                                ![s].BranchReported = {ErrCheckoutBack}]
          /\ UNCHANGED eventsLeft
       \/ /\ ~DirtyOnBranch(s)
          /\ branches' = (branches \ {Branch(s, EmptyFiles)})
                             \cup {Branch(s, conflictFiles[s])}
          /\ head' = res[s].OriginalBranch
          /\ fs' = [p \in FsKeys |->
                       IF conflictFiles[s][p] # NoFile THEN committed[p] ELSE fs[p]]
          /\ res' = [res EXCEPT ![s].BranchCreated = TRUE]
          /\ UNCHANGED eventsLeft
    /\ pc' = [pc EXCEPT ![s] = "save"]
    /\ UNCHANGED <<call, excludeA, branchPrefix, autoCommit, remote, clone, snap, cfg, disk, run,
                   idx, conflictFiles, results, closed, collected, committed,
                   commits, runsLeft, start, hist>>

CreateConflictBranch(s) == BeginConflictBranch(s) \/ FinishConflictBranch(s)

(***************************************************************************)
(* The rest of syncSource (cmd/sync.go, lines 242-289).                    *)
(***************************************************************************)
HasChanges(s) == res[s].UpdatedPaths # <<>>

\* lines 248-255: conflicts in merge mode abort the Source before anything
\* is saved
AbortOnConflicts(s) ==
    /\ pc[s] = "save"
    /\ res[s].Conflicts # {} /\ run.mode = SyncModeMerge /\ ~run.dry
    /\ res' = [res EXCEPT ![s].Error = ErrConflicts]
    /\ pc' = [pc EXCEPT ![s] = "send"]
    /\ UNCHANGED <<call, excludeA, branchPrefix, autoCommit, remote, clone, fs, snap, cfg, disk,
                   run, idx, conflictFiles, results, closed, collected, head,
                   committed, branches, commits, runsLeft, eventsLeft, start, hist>>

\* lines 257-273: cfg.Save writes the whole in-memory configuration; a
\* failure is logged only
SaveConfig(s) ==
    /\ pc[s] = "save"
    /\ ~(res[s].Conflicts # {} /\ run.mode = SyncModeMerge /\ ~run.dry)
    /\ HasChanges(s) /\ ~run.dry
    /\ \E ok \in BOOLEAN :
        /\ ~ok => eventsLeft > 0
        /\ eventsLeft' = IF ok THEN eventsLeft ELSE eventsLeft - 1
        /\ disk' = IF ok THEN cfg ELSE disk
    /\ pc' = [pc EXCEPT ![s] = IF autoCommit THEN "commit" ELSE "send"]
    /\ UNCHANGED <<call, excludeA, branchPrefix, autoCommit, remote, clone, fs, snap, cfg, run, idx,
                   res, conflictFiles, results, closed, collected, head,
                   committed, branches, commits, runsLeft, start,
                   hist>>

NothingToSave(s) ==
    /\ pc[s] = "save"
    /\ ~(res[s].Conflicts # {} /\ run.mode = SyncModeMerge /\ ~run.dry)
    /\ ~(HasChanges(s) /\ ~run.dry)
    /\ pc' = [pc EXCEPT ![s] = "send"]
    /\ UNCHANGED <<call, excludeA, branchPrefix, autoCommit, remote, clone, fs, snap, cfg, disk,
                   run, idx, res, conflictFiles, results, closed, collected,
                   head, committed, branches, commits, runsLeft, eventsLeft, start, hist>>

\* CreateCommit stages the paths of UpdatedPaths (the Include of each
\* updated PathSpec, taken relative to the working directory) and commits;
\* a path that does not exist in the working tree is not staged.
Staged(s) == {p \in FsKeys : p \in Range(res[s].UpdatedPaths) /\ fs[p] # NoFile}

CreateCommit(s) ==
    /\ pc[s] = "commit"
    /\ commits' = [commits EXCEPT ![s] = [made |-> TRUE, paths |-> Staged(s)]]
    /\ committed' = IF head = OriginalBranch
                    THEN [p \in FsKeys |->
                             IF p \in Staged(s) THEN fs[p] ELSE committed[p]]
                    ELSE committed
    /\ pc' = [pc EXCEPT ![s] = "send"]
    /\ UNCHANGED <<call, excludeA, branchPrefix, autoCommit, remote, clone, fs, snap, cfg, disk,
                   run, idx, res, conflictFiles, results, closed, collected,
                   head, branches, runsLeft, eventsLeft, start,
                   hist>>

\* the process exits: what it held in memory is gone
ExitWith(c) ==
    /\ call' = c
    /\ run' = NoRun
    /\ pc' = [s \in SourceNames |-> "idle"]
    /\ idx' = [s \in SourceNames |-> 1]
    /\ cfg' = disk
    /\ res' = [s \in SourceNames |-> NoResult]
    /\ conflictFiles' = [s \in SourceNames |-> EmptyFiles]
    /\ results' = <<>>
    /\ closed' = FALSE
    /\ collected' = {}
    /\ commits' = [s \in SourceNames |-> NoCommit]
    /\ start' = NoStart
    /\ hist' = [s \in SourceNames |-> [i \in 1..NumPaths(s) |-> NoHist]]
    /\ UNCHANGED <<excludeA, branchPrefix, autoCommit, remote, clone, fs, snap, disk, head,
                   committed, branches, runsLeft, eventsLeft>>

Exit == ExitWith(call)

ReturnOne(s) ==
    /\ pc[s] = "send"
    /\ run.kind = "one"
    /\ Exit

\* the capacity of the channel results
ResultsCap == Len(Sources)

\* syncAllSources, lines 121-128: results <- result; wg.Done()
SendResult(s) ==
    /\ pc[s] = "send"
    /\ run.kind = "all"
    /\ Len(results) < ResultsCap
    /\ results' = Append(results, s)
    /\ pc' = [pc EXCEPT ![s] = "done"]
    /\ UNCHANGED <<call, excludeA, branchPrefix, autoCommit, remote, clone, fs, snap, cfg, disk,
                   run, idx, res, conflictFiles, closed, collected, head,
                   committed, branches, commits, runsLeft, eventsLeft, start, hist>>

CloseResultsWithoutWait ==
    /\ run.kind = "all"
    /\ ~closed
    /\ closed' = TRUE
    /\ UNCHANGED <<call, excludeA, branchPrefix, autoCommit, remote, clone, fs, snap, cfg, disk,
                   run, pc, idx, res, conflictFiles, results, collected, head,
                   committed, branches, commits, runsLeft, eventsLeft, start, hist>>

\* lines 131-134: wg.Wait(); close(results)
CloseResults ==
    /\ run.kind = "all"
    /\ ~closed
    /\ \A s \in SourceNames : pc[s] = "done"
    /\ closed' = TRUE
    /\ UNCHANGED <<call, excludeA, branchPrefix, autoCommit, remote, clone, fs, snap, cfg, disk,
                   run, pc, idx, res, conflictFiles, results, collected, head,
                   committed, branches, commits, runsLeft, eventsLeft, start, hist>>

\* lines 143-158: for result := range results
Collect ==
    /\ run.kind = "all"
    /\ results # <<>>
    /\ collected' = collected \cup {Head(results)}
    /\ results' = Tail(results)
    /\ UNCHANGED <<call, excludeA, branchPrefix, autoCommit, remote, clone, fs, snap, cfg, disk,
                   run, pc, idx, res, conflictFiles, closed, head, committed,
                   branches, commits, runsLeft, eventsLeft, start,
                   hist>>

\* the range loop ends once the channel is closed and drained
ReturnAll ==
    /\ run.kind = "all"
    /\ closed /\ results = <<>>
    /\ Exit

Environment ==
    \/ \E e \in EditableRemote, c \in RemoteVersions \cup {NoFile} :
           RemoteCommit(e[1], e[2], c)
    \/ \E p \in EditableLocal, c \in LocalVersions \cup {NoFile} : LocalEdit(p, c)

\* one step of the task of a Source: syncSource
Task(s) ==
    \/ OpenRepository(s)
    \/ checkoutBranch(s)
    \/ SkipMissing(s)
    \/ ProcessPathSpec(s)
    \/ NoConflictBranch(s)
    \/ CreateConflictBranch(s)
    \/ AbortOnConflicts(s)
    \/ SaveConfig(s)
    \/ NothingToSave(s)
    \/ CreateCommit(s)

\* the commands sync s1, one at a time
Next ==
    \/ Environment
    \/ \E m \in SyncModes, dry \in BOOLEAN : syncSingleSource("s1", m, dry)
    \/ Task("s1")
    \/ ReturnOne("s1")

Spec == Init /\ [][Next]_vars

\* between two sync --all: a commit that changes or deletes the remote file
\* h, an edit of its local copy w/h
EnvironmentAll ==
    \/ \E c \in RemoteVersions \cup {NoFile} : RemoteCommit("r1", IncH, c)
    \/ \E c \in LocalVersions : LocalEdit(LocalWH, c)

\* the commands sync --all, one at a time: the Sources' tasks interleave
NextAll ==
    \/ EnvironmentAll
    \/ \E m \in SyncModes : syncAllSources(m, FALSE)
    \/ \E s \in SourceNames : Task(s) \/ SendResult(s)
    \/ CloseResults
    \/ Collect
    \/ ReturnAll

InitAll ==
    /\ InitWith(<<>>, TRUE, MaxAllEvents)
    /\ branchPrefix = DefaultBranchPrefix
    /\ call = NoCall

SpecAll == InitAll /\ [][NextAll]_vars

\* a line that holds a 0x00 byte
NulLine == 9

\* isBinaryFile: a 0x00 byte among the first 8000 bytes
isBinaryFile(content) == NulLine \in Range(content)

\* versions of a binary file
BinaryVersions == {<<NulLine>>, <<NulLine, 2>>}

\* ListConflictBranches: the branches whose name starts with prefix + "/"
ListConflictBranches(all, prefix) ==
    {b \in all : /\ Len(b.name) > Len(prefix)
                 /\ SubSeq(b.name, 1, Len(prefix) + 1) = prefix \o <<Slash>>}

\* cherry-go cleanup --all: every branch listed under the configured prefix
\* is deleted
cleanupCmd ==
    /\ Quiet
    /\ ListConflictBranches(branches, branchPrefix) # {}
    /\ branches' = branches \ ListConflictBranches(branches, branchPrefix)
    /\ UNCHANGED <<call, excludeA, branchPrefix, autoCommit, remote, clone, fs,
                   snap, cfg, disk, run, pc, idx, res, conflictFiles, results,
                   closed, collected, head, committed, commits, runsLeft,
                   eventsLeft, start, hist>>

\* the commands sync s1 in a repository whose user commits: between two
\* runs the remote file h changes, its local copy w/h is edited, the remote
\* file d/a or its local copy a becomes a binary file, the working tree is
\* committed
NextBranch ==
    \/ EnvironmentAll
    \/ \E c \in BinaryVersions :
           RemoteCommit("r1", Join(IncD, RelA), c) \/ LocalEdit(RelA, c)
    \/ UserCommit
    \/ cleanupCmd
    \/ \E m \in SyncModes : syncSingleSource("s1", m, FALSE)
    \/ Task("s1")
    \/ ReturnOne("s1")

InitBranch ==
    /\ \E exclude \in {<<>>, << <<"b">> >>} :
           InitWith(exclude, TRUE, MaxBranchEvents)
    /\ branchPrefix \in {DefaultBranchPrefix, <<"conflicts">>}
    /\ call = NoCall

SpecBranch == InitBranch /\ [][NextBranch]_vars

\* the texts handed to ThreeWayMerge: up to MaxLen lines out of three
MergeTexts == UNION {[1..n -> 1..3] : n \in 0..MaxLen}

\* PatchBasedMerge reaches semanticLineMerge
lineMergerRuns(b, l, r) == b # r /\ b # l /\ l # r

\* a call of ThreeWayMerge on its own, as the tests of the package make it
CallThreeWayMerge ==
    /\ call.state = "args"
    /\ call' = [call EXCEPT
           !.state = "returned",
           !.lineMerger = lineMergerRuns(call.base, call.local, call.remote),
           !.result = ThreeWayMerge(call.base, call.local, call.remote)]
    /\ UNCHANGED <<excludeA, branchPrefix, autoCommit, remote, clone, fs, snap, cfg, disk,
                   run, pc, idx, res, conflictFiles, results, closed,
                   collected, head, committed, branches, commits, runsLeft,
                   eventsLeft, start, hist>>

InitMerge ==
    /\ InitWith(<<>>, TRUE, 0)
    /\ branchPrefix = DefaultBranchPrefix
    /\ \E b \in MergeTexts, l \in MergeTexts, r \in MergeTexts :
           call = [NoCall EXCEPT !.base = b, !.local = l, !.remote = r,
                                 !.state = "args"]

SpecMerge == InitMerge /\ [][CallThreeWayMerge]_vars

\* the three exclusion tests applied to one relative path of a tracked
\* directory: the hasher's, the directory copy's, the tree reader's
CallShouldExclude ==
    /\ call.state = "path"
    /\ call' = [call EXCEPT
           !.state = "decided",
           !.hasher = HasherShouldExclude(call.path, call.excludes),
           !.copy = CopyDirSkips(call.path, call.excludes),
           !.reader = ShouldExclude(call.path, call.excludes)]
    /\ UNCHANGED <<excludeA, branchPrefix, autoCommit, remote, clone, fs, snap, cfg, disk,
                   run, pc, idx, res, conflictFiles, results, closed,
                   collected, head, committed, branches, commits, runsLeft,
                   eventsLeft, start, hist>>

\* a relative path of up to MaxLen components and an exclude list of one
\* pattern of up to MaxLen characters
InitExclude ==
    /\ InitWith(<<>>, TRUE, 0)
    /\ branchPrefix = DefaultBranchPrefix
    /\ \E p \in {<<n>> : n \in {"a", "b", "t"}}
                 \cup (IF MaxLen < 2 THEN {}
                       ELSE {Join(d, f) : d, f \in
                                UNION {[1..k -> {"a", "b", "t"}] :
                                           k \in 1..(MaxLen - 1)}}),
          e \in UNION {[1..n -> {"a", "b", "t", "*", "?", Slash}] :
                           n \in 1..MaxLen} :
           call = [state |-> "path", path |-> p, excludes |-> <<e>>,
                   hasher |-> FALSE, copy |-> FALSE, reader |-> FALSE]

SpecExclude == InitExclude /\ [][CallShouldExclude]_vars

(***************************************************************************)
(* The configuration commands (internal/config, cmd) and the snapshot      *)
(* store on their own.  The configuration is call.Sources, the store snap. *)
(***************************************************************************)
IncDA == Join(IncD, RelA)

Source(name, paths) == [Name |-> name, Paths |-> paths]

\* the index of the first Source of that name, 0 if there is none
SourceIndex(srcs, name) ==
    IF \E i \in DOMAIN srcs : srcs[i].Name = name
    THEN CHOOSE i \in DOMAIN srcs :
             /\ srcs[i].Name = name
             /\ \A j \in DOMAIN srcs : srcs[j].Name = name => i <= j
    ELSE 0

GetSource(srcs, name) == SourceIndex(srcs, name) # 0

\* Config.AddSource with every Source appended, existing name or not
AddSourceAppends(srcs, source) == Append(srcs, source)

AddSource(srcs, source) ==
    IF SourceIndex(srcs, source.Name) # 0
    THEN [srcs EXCEPT ![SourceIndex(srcs, source.Name)] = source]
    ELSE Append(srcs, source)

\* Config.RemoveSource: the configuration left and the value returned
RemoveSource(srcs, name) ==
    IF SourceIndex(srcs, name) # 0
    THEN [Sources |-> SubSeq(srcs, 1, SourceIndex(srcs, name) - 1)
                          \o SubSeq(srcs, SourceIndex(srcs, name) + 1, Len(srcs)),
          ok |-> TRUE]
    ELSE [Sources |-> srcs, ok |-> FALSE]

FilePathSpec(include) == PathSpec(include, <<>>, "r1", <<>>)

\* Config.ApplyCherryBunch: the files, then the directories, as PathSpecs
ApplyCherryBunch(srcs, cb) ==
    AddSource(srcs,
              Source(cb.Name,
                     [i \in DOMAIN cb.Files |-> FilePathSpec(cb.Files[i])]
                         \o [i \in DOMAIN cb.Directories |->
                                FilePathSpec(cb.Directories[i])]))

HasPrefix(str, prefix) ==
    Len(prefix) <= Len(str) /\ SubSeq(str, 1, Len(prefix)) = prefix

\* the state after one command or one call: the configuration, what it was
\* before, the operation, its arguments, what it returned, the PathSpecs a
\* sync worked on, and for SaveSnapshot the snapshot it found and its files
ConfigCall(srcs, op, name, arg, ret, worked, old, files) ==
    [state |-> "config", Sources |-> srcs, before |-> call.Sources, op |-> op,
     name |-> name, arg |-> arg, ret |-> ret, worked |-> worked, old |-> old,
     files |-> files]

ConfigFrame ==
    UNCHANGED <<excludeA, branchPrefix, autoCommit, remote, clone, fs, cfg, disk, run, pc,
                idx, res, conflictFiles, results, closed, collected, head,
                committed, branches, commits, runsLeft, eventsLeft, start,
                hist>>

CallAddSource ==
    /\ call.state = "config"
    /\ \E name \in SourceNames, paths \in {<<>>} :
           call' = ConfigCall(AddSource(call.Sources, Source(name, paths)),
                              "AddSource", name, Source(name, paths), TRUE,
                              <<>>, NoSnapshot, EmptyFiles)
    /\ UNCHANGED snap
    /\ ConfigFrame

CallRemoveSource ==
    /\ call.state = "config"
    /\ \E name \in SourceNames :
           call' = ConfigCall(RemoveSource(call.Sources, name).Sources,
                              "RemoveSource", name, <<>>,
                              RemoveSource(call.Sources, name).ok,
                              <<>>, NoSnapshot, EmptyFiles)
    /\ UNCHANGED snap
    /\ ConfigFrame

CallApplyCherryBunch ==
    /\ call.state = "config"
    /\ \E name \in SourceNames, files \in {<<>>, <<IncH>>},
          dirs \in {<<>>, <<IncD>>} :
           LET cb == [Name |-> name, Files |-> files, Directories |-> dirs]
           IN  call' = ConfigCall(ApplyCherryBunch(call.Sources, cb),
                                  "ApplyCherryBunch", name, cb, TRUE,
                                  <<>>, NoSnapshot, EmptyFiles)
    /\ UNCHANGED snap
    /\ ConfigFrame

\* the first sync of a Source by an add command: every PathSpec of the
\* Source is processed and gets its base snapshot
performInitialSync(st, name, paths) ==
    [st EXCEPT ![name] =
        [inc \in DOMAIN @ |->
            IF \E i \in DOMAIN paths : paths[i].Include = inc
            THEN [exists |-> TRUE, files |-> [EmptyFiles EXCEPT ![RelA] = <<1>>]]
            ELSE @[inc]]]

\* the end of both add commands: the PathSpec is appended, the Source is
\* synced, and the configuration is saved if the sync succeeded
AddPathSpec(op, name, include) ==
    LET i == SourceIndex(call.Sources, name)
        paths == Append(call.Sources[i].Paths, FilePathSpec(include))
        added == [call.Sources EXCEPT ![i].Paths = paths]
    IN  \/ /\ call' = ConfigCall(added, op, name, include, TRUE, paths,
                                 NoSnapshot, EmptyFiles)
           /\ snap' = performInitialSync(snap, name, paths)
        \/ /\ call' = ConfigCall(call.Sources, op, name, include, FALSE, paths,
                                 NoSnapshot, EmptyFiles)
           /\ UNCHANGED snap

\* cherry-go add file --repo name filePath
addFileCmd ==
    /\ call.state = "config"
    /\ \E name \in SourceNames, filePath \in {IncH, IncDA} :
           /\ GetSource(call.Sources, name)
           /\ \A ps \in Range(call.Sources[SourceIndex(call.Sources, name)].Paths) :
                  ps.Include # filePath
           /\ AddPathSpec("addFile", name, filePath)
    /\ ConfigFrame

\* cherry-go add directory --repo name dirPath
addDirectoryCmd ==
    /\ call.state = "config"
    /\ \E name \in SourceNames, dirPath \in {IncD} :
           /\ GetSource(call.Sources, name)
           /\ \A ps \in Range(call.Sources[SourceIndex(call.Sources, name)].Paths) :
                  /\ ps.Include # dirPath
                  /\ ~HasPrefix(dirPath, ps.Include)
                  /\ ~HasPrefix(ps.Include, dirPath)
           /\ AddPathSpec("addDirectory", name, dirPath)
    /\ ConfigFrame

\* cherry-go remove name
removeCmd ==
    /\ call.state = "config"
    /\ \E name \in SourceNames :
           /\ GetSource(call.Sources, name)
           /\ RemoveSource(call.Sources, name).ok
           /\ call' = ConfigCall(RemoveSource(call.Sources, name).Sources,
                                 "remove", name, <<>>, TRUE, <<>>, NoSnapshot,
                                 EmptyFiles)
    /\ UNCHANGED snap
    /\ ConfigFrame

\* files a caller may hand to SaveSnapshot
SnapshotFiles ==
    {[EmptyFiles EXCEPT ![RelA] = <<1>>, ![RelTB] = <<1>>],
     [EmptyFiles EXCEPT ![RelA] = <<2>>]}

\* SaveSnapshot(name, include, files), returning nil or an error
CallSaveSnapshot ==
    /\ call.state = "config"
    /\ \E name \in SourceNames, inc \in Includes, files \in SnapshotFiles :
           \/ /\ snap' = SaveSnapshot(snap, name, inc, files)
              /\ call' = ConfigCall(call.Sources, "SaveSnapshot", name, inc,
                                    TRUE, <<>>, snap[name][inc], files)
           \/ /\ snap' \in SaveSnapshotFailures(snap, name, inc, files)
              /\ call' = ConfigCall(call.Sources, "SaveSnapshot", name, inc,
                                    FALSE, <<>>, snap[name][inc], files)
    /\ ConfigFrame

\* DeleteSourceSnapshots(name), returning nil or an error; call.worked is the
\* store the call found
CallDeleteSourceSnapshots ==
    /\ call.state = "config"
    /\ \E name \in SourceNames :
           \/ /\ snap' = DeleteSourceSnapshots(snap, name)
              /\ call' = ConfigCall(call.Sources, "DeleteSourceSnapshots", name,
                                    <<>>, TRUE, snap, NoSnapshot, EmptyFiles)
           \/ /\ snap' \in RemoveAllFailures(snap, {name})
              /\ call' = ConfigCall(call.Sources, "DeleteSourceSnapshots", name,
                                    <<>>, FALSE, snap, NoSnapshot, EmptyFiles)
    /\ ConfigFrame

\* the lists of source names handed to CleanOrphanedSnapshots
ValidSourceLists == {<<>>, <<"s1">>, <<"s2">>, <<"s1", "s2">>}

\* CleanOrphanedSnapshots(validSources), returning nil or an error
CallCleanOrphanedSnapshots ==
    /\ call.state = "config"
    /\ \E validSources \in ValidSourceLists :
           \/ /\ snap' = CleanOrphanedSnapshots(snap, validSources)
              /\ call' = ConfigCall(call.Sources, "CleanOrphanedSnapshots", "",
                                    validSources, TRUE, snap, NoSnapshot,
                                    EmptyFiles)
           \/ /\ snap' \in RemoveAllFailures(snap,
                               SourceNames \ Range(validSources))
              /\ call' = ConfigCall(call.Sources, "CleanOrphanedSnapshots", "",
                                    validSources, FALSE, snap, NoSnapshot,
                                    EmptyFiles)
    /\ ConfigFrame

\* the snapshot store on its own: SaveSnapshot,
\* DeleteSourceSnapshots, CleanOrphanedSnapshots
NextStore ==
    \/ CallSaveSnapshot
    \/ CallDeleteSourceSnapshots
    \/ CallCleanOrphanedSnapshots

InitConfig ==
    /\ InitWith(<<>>, TRUE, 0)
    /\ branchPrefix = DefaultBranchPrefix
    /\ call = [state |-> "config", Sources |-> <<>>, before |-> <<>>,
               op |-> "none", name |-> "", arg |-> <<>>, ret |-> TRUE,
               worked |-> <<>>, old |-> NoSnapshot, files |-> EmptyFiles]

NextConfig ==
    \/ CallAddSource
    \/ CallRemoveSource
    \/ CallApplyCherryBunch
    \/ addFileCmd
    \/ addDirectoryCmd
    \/ removeCmd

SpecConfig == InitConfig /\ [][NextConfig]_vars

SpecStore == InitConfig /\ [][NextStore]_vars

\* a step of the command: of a Source's task, of the goroutine that waits
\* and closes, or of the collector
RunStep ==
    \/ \E s \in SourceNames : Task(s) \/ SendResult(s)
    \/ CloseResults
    \/ Collect
    \/ ReturnAll

\* the Go scheduler does not stop while a goroutine can run (each goroutine
\* being scheduled implies it)
FairAll == WF_vars(RunStep)

SpecAllFair == SpecAll /\ FairAll

(***************************************************************************)
(* Properties.                                                             *)
(***************************************************************************)
Running == run.kind # "none"

\* PathSpec id = <<source, i>> went through processPath in the current run
Processed(id) == hist[id[1]][id[2]].status = "processed"

Entry(id) == hist[id[1]][id[2]]

\* no I/O operation has failed in the current run
NoFailureSoFar == eventsLeft = start.events

Differs(f, g) == \E p \in FsKeys : f[p] # g[p]

\* C1: a sync run in Detect mode changes no destination file, no `files`
\* map (in memory or in the saved configuration) and no base snapshot.
DetectPurity ==
    (Running /\ run.mode = SyncModeDetect) =>
        /\ fs = start.fs
        /\ cfg = start.cfg
        /\ disk = start.disk
        /\ snap = start.snap

\* a Detect run that found the local content of a PathSpec different from
\* the remote content and has finished
DetectPurityWitness ==
    /\ Running /\ run.mode = SyncModeDetect /\ ~run.dry
    /\ pc["s1"] = "send"
    /\ \E id \in PathIds : Processed(id) /\ Entry(id).out.conflicts # {}

\* C2: in Merge mode, a PathSpec one of whose files reports a conflict keeps
\* its `files` map as it was before the run, in memory and in the saved
\* configuration, whatever happened to its other files.
NoHalfUpdates ==
    \A id \in PathIds :
        (/\ Running /\ run.mode = SyncModeMerge
         /\ Processed(id)
         /\ Entry(id).out.conflicts # {})
        => /\ cfg[id[1]][id[2]] = start.cfg[id[1]][id[2]]
           /\ disk[id[1]][id[2]] = start.disk[id[1]][id[2]]

\* a Merge run in which one file of a directory conflicted while another
\* file of the same directory was written
NoHalfUpdatesWitness ==
    /\ Running /\ run.mode = SyncModeMerge /\ ~run.dry
    /\ pc["s1"] = "send"
    /\ \E id \in PathIds :
        /\ Processed(id)
        /\ Entry(id).out.conflicts # {}
        /\ Differs(Entry(id).out.fs, Entry(id).in.fs)
        /\ start.cfg[id[1]][id[2]] # EmptyHashes

\* the remote files of the PathSpec of an input, relative to its include
RemoteFilesOf(in) ==
    IF in.isDir THEN Range(WalkFiles(in.tree, in.ps.Include)) ELSE {FileName(in)}

\* the rule of the specification for an excluded file: a glob match of the
\* base name or a substring match of the relative path
NonExcluded(in) ==
    {rel \in RemoteFilesOf(in) :
        ~in.isDir \/ ~HasherShouldExclude(rel, in.ps.Exclude)}

Writing == {SyncModeForce, SyncModeMerge, SyncModeBranch}

\* C3: after a PathSpec sync that ends marked updated, every entry of the
\* new `files` map is the hash of the destination file, which exists.
HashConsistency ==
    \A id \in PathIds :
        (/\ Processed(id)
         /\ Entry(id).in.mode \in Writing /\ ~Entry(id).in.dry
         /\ Entry(id).out.updated)
        => \A rel \in RelKeys :
              Entry(id).out.newHashes[rel] # NoHash =>
                 LET bytes == Entry(id).out.fs[DestOf(Entry(id).in, rel)]
                 IN  /\ bytes # NoFile
                     /\ HashBytes(bytes) = Entry(id).out.newHashes[rel]

\* C4: after a PathSpec sync that ends marked updated, the base snapshot of
\* (source, include) holds exactly the relative paths of the `files` map,
\* each with the bytes now at its destination.
SnapshotFidelity ==
    \A id \in PathIds :
        (/\ Processed(id)
         /\ ~Entry(id).in.dry
         /\ ~Entry(id).ioFailed /\ ~Entry(id).saveFailed
         /\ Entry(id).out.updated)
        => /\ Entry(id).snap.exists
           /\ \A rel \in RelKeys :
                 Entry(id).out.newHashes[rel] # NoHash =>
                    ReadFs(Entry(id).snap.files, rel)
                        = Entry(id).out.fs[DestOf(Entry(id).in, rel)]
           /\ \A k \in FsKeys :
                 Entry(id).snap.files[k] # NoFile =>
                    k \in RelKeys /\ Entry(id).out.newHashes[k] # NoHash

\* a PathSpec that was never synced: no hashes, no snapshot, no local file
FirstSync(in) ==
    /\ in.Files = EmptyHashes
    /\ ~in.snapshot.exists
    /\ \A rel \in RemoteFilesOf(in) : LocalBytes(in, rel) = NoFile

\* C5: a first sync in Merge or Branch mode writes every non-excluded remote
\* file, records its hash and creates the base snapshot, as Force does.
FirstSyncAdopts ==
    \A id \in PathIds :
        (/\ Processed(id)
         /\ Entry(id).in.mode \in {SyncModeMerge, SyncModeBranch}
         /\ ~Entry(id).in.dry
         /\ ~Entry(id).ioFailed /\ ~Entry(id).saveFailed
         /\ FirstSync(Entry(id).in))
        => /\ Entry(id).out.updated
           /\ Entry(id).snap.exists
           /\ \A rel \in NonExcluded(Entry(id).in) :
                 /\ Entry(id).out.fs[DestOf(Entry(id).in, rel)]
                        = RemoteBytes(Entry(id).in, rel)
                 /\ Entry(id).out.newHashes[rel]
                        = HashBytes(RemoteBytes(Entry(id).in, rel))

\* the PathSpec was synced (hashes recorded, the bytes of every file saved
\* in the snapshot) and no file of its destination has been modified since
SyncedUnmodified(in) ==
    /\ in.snapshot.exists
    /\ \A rel \in RemoteFilesOf(in) :
          /\ in.Files[rel] # NoHash
          /\ LocalBytes(in, rel) # NoFile
          /\ HashBytes(LocalBytes(in, rel)) = in.Files[rel]
          /\ in.snapshot.files[DestOf(in, rel)] = LocalBytes(in, rel)

ChangedRemotely(in) ==
    {rel \in RemoteFilesOf(in) : RemoteBytes(in, rel) # LocalBytes(in, rel)}

\* C6: after a successful sync, with the destination unmodified and one
\* remote file changed, a Merge sync adopts the remote bytes of that file
\* without a conflict, records its new hash and leaves the other files and
\* hashes as they were.
RemoteOnlyChangeAdopted ==
    \A id \in PathIds :
        (/\ Processed(id)
         /\ Entry(id).in.mode = SyncModeMerge
         /\ ~Entry(id).in.dry /\ ~Entry(id).ioFailed
         /\ SyncedUnmodified(Entry(id).in)
         /\ Cardinality(ChangedRemotely(Entry(id).in)) = 1)
        => /\ Entry(id).out.conflicts = {}
           /\ Entry(id).out.updated
           /\ \A rel \in RemoteFilesOf(Entry(id).in) :
                 /\ Entry(id).out.fs[DestOf(Entry(id).in, rel)]
                        = RemoteBytes(Entry(id).in, rel)
                 /\ Entry(id).out.newHashes[rel]
                        = HashBytes(RemoteBytes(Entry(id).in, rel))
           /\ \A p \in FsKeys :
                 (\A rel \in ChangedRemotely(Entry(id).in) :
                     DestOf(Entry(id).in, rel) # p)
                 => Entry(id).out.fs[p] = Entry(id).in.fs[p]

\* C7: after a Force sync of a PathSpec whose source path exists, every
\* non-excluded remote file is at its destination byte for byte, the `files`
\* map holds the hashes of exactly those files, the base snapshot holds the
\* remote bytes, and the three-way merger was not invoked.
ForceVerbatim ==
    \A id \in PathIds :
        (/\ Processed(id)
         /\ Entry(id).in.mode = SyncModeForce
         /\ ~Entry(id).in.dry
         /\ ~Entry(id).ioFailed /\ ~Entry(id).saveFailed
         /\ Entry(id).differs)
        => /\ \A rel \in NonExcluded(Entry(id).in) :
                 Entry(id).out.fs[DestOf(Entry(id).in, rel)]
                     = RemoteBytes(Entry(id).in, rel)
           /\ Entry(id).out.updated
           /\ Entry(id).out.newHashes =
                 [rel \in RelKeys |->
                     IF rel \in NonExcluded(Entry(id).in)
                     THEN HashBytes(RemoteBytes(Entry(id).in, rel))
                     ELSE NoHash]
           /\ Entry(id).snap.exists
           /\ \A rel \in NonExcluded(Entry(id).in) :
                 Entry(id).snap.files[DestOf(Entry(id).in, rel)]
                     = RemoteBytes(Entry(id).in, rel)
           /\ Entry(id).out.merger = {}

\* C8: the new hashes of an earlier PathSpec are persisted whatever happens
\* to a later PathSpec of the same Source: when the Source's sync returns,
\* the saved configuration holds them.
EarlierHashesPersisted ==
    \A id \in PathIds :
        (/\ Running /\ ~run.dry /\ NoFailureSoFar
         /\ pc[id[1]] = "send"
         /\ id[2] < NumPaths(id[1])
         /\ Processed(id)
         /\ Entry(id).out.updated)
        => disk[id[1]][id[2]] = Entry(id).out.newHashes

\* C9: when a remote read or a destination write fails while a PathSpec is
\* synced in Force, Merge or Branch mode, the PathSpec is not marked updated
\* and its `files` map does not change.
IoFailureAborts ==
    \A id \in PathIds :
        (/\ Processed(id)
         /\ Entry(id).in.mode \in Writing /\ ~Entry(id).in.dry
         /\ Entry(id).ioFailed)
        => /\ ~Entry(id).out.updated
           /\ cfg[id[1]][id[2]] = Entry(id).in.Files

\* the loop of CopyPaths is over for the Source s
LoopOver(s) ==
    \/ pc[s] \in {"branch", "onbranch", "save", "commit"}
    \/ pc[s] \in {"send", "done"} /\ res[s].Error # ErrInitialize

\* the sync of the Source t has failed: its SyncResult carries an error
Failed(t) == res[t].Error # NoError

\* the task of the Source s has delivered its result or can take its step
CanStep(s) ==
    CASE pc[s] = "init" -> ENABLED OpenRepository(s)
      [] pc[s] = "checkout" -> ENABLED checkoutBranch(s)
      [] pc[s] = "process" -> ENABLED (SkipMissing(s) \/ ProcessPathSpec(s))
      [] pc[s] = "branch" ->
            ENABLED (NoConflictBranch(s) \/ BeginConflictBranch(s))
      [] pc[s] = "onbranch" -> ENABLED FinishConflictBranch(s)
      [] pc[s] = "save" ->
            ENABLED (AbortOnConflicts(s) \/ SaveConfig(s) \/ NothingToSave(s))
      [] pc[s] = "commit" -> ENABLED CreateCommit(s)
      [] pc[s] = "send" -> ENABLED SendResult(s)
      [] OTHER -> pc[s] = "done"

ReadsClone(s) == pc[s] = "process" /\ pc'[s] # "process"

\* C11: during sync --all, whenever a task reads a file under a PathSpec's
\* include from the cached clone, the clone's working tree is checked out at
\* that PathSpec's reference, for every interleaving of the Sources' tasks.
CheckoutBeforeRead ==
    [][\A s \in SourceNames :
          (run.kind = "all" /\ ReadsClone(s))
          => clone = Paths(s)[idx[s]].Branch]_vars

\* the step is a step of the task of t
StepOf(t) == pc'[t] # pc[t] \/ idx'[t] # idx[t]

\* the consumer repository is checked out on the conflict branch of s, whose
\* task is inside CreateConflictBranch
OnConflictBranch(s) == head = s /\ pc[s] = "onbranch"

\* C12: during sync --all, no two Sources are inside CreateConflictBranch at
\* once, and while the consumer repository is checked out on the conflict
\* branch of one Source no step of another Source's task writes a file of the
\* consumer working tree or commits to the consumer repository.
BranchCallsSerialized ==
    [][\A s \in SourceNames :
          (run.kind = "all" /\ OnConflictBranch(s))
          => \A t \in SourceNames \ {s} :
                /\ pc[t] # "onbranch"
                /\ pc'[t] # "onbranch"
                /\ StepOf(t) => /\ fs' = fs
                                /\ commits' = commits
                                /\ committed' = committed]_vars

\* how many times the result of s is in the channel
InChannel(s) == Cardinality({i \in 1..Len(results) : results[i] = s})

\* the result of s was delivered once if its task is done, never otherwise,
\* and a task that has a result to deliver finds room in the channel
OneResultEach ==
    run.kind = "all" =>
        \A s \in SourceNames :
            /\ InChannel(s) + (IF s \in collected THEN 1 ELSE 0)
                   = (IF pc[s] = "done" THEN 1 ELSE 0)
            /\ pc[s] = "send" => Len(results) < ResultsCap

ContributedAt(s, p, c) ==
    \E i \in 1..NumPaths(s) :
        LET ps == Paths(s)[i]
            tree == remote[ps.Branch]
        IN  IF IsDir(tree, ps.Include)
            THEN \E rel \in Range(WalkFiles(tree, ps.Include)) :
                     /\ Join(LocalPathOf(ps), rel) = p
                     /\ ReadFs(tree, Join(ps.Include, rel)) = c
            ELSE p = LocalPathOf(ps) /\ ReadFs(tree, ps.Include) = c

\* CopyPaths of the Branch-mode sync of s has returned, conflicts remained and
\* no I/O operation failed
BranchSyncDone(s) ==
    /\ run.mode = SyncModeBranch /\ ~run.dry
    /\ pc[s] = "save"
    /\ BranchWanted(s)
    /\ NoFailureSoFar

\* C14: after a Branch-mode sync of a Source in which conflicts remained,
\* HEAD is the branch and commit it was before, a conflict branch of the
\* Source exists, and its commit holds only contributed remote files, each
\* at its local_path mapping.
BranchIsolation ==
    \A s \in SourceNames :
        BranchSyncDone(s) =>
            /\ head = start.head
            /\ committed = start.committed
            /\ \E b \in branches :
                   /\ b.source = s
                   /\ b.files # EmptyFiles
                   /\ \A p \in FsKeys :
                          b.files[p] # NoFile => ContributedAt(s, p, b.files[p])

\* CreateConflictBranch was called for s and has returned
BranchCallReturned(s) ==
    /\ run.mode = SyncModeBranch /\ ~run.dry
    /\ pc[s] = "save"
    /\ BranchWanted(s)

\* C15: when CreateConflictBranch returns after reading HEAD, the repository
\* is checked out on the original branch, on success and on every failure
\* before the return to it; and when that return fails after another
\* failure, the error given to the caller reports both.
BranchRestoresOriginal ==
    \A s \in SourceNames :
        (BranchCallReturned(s) /\ ErrHead \notin res[s].BranchFailed) =>
            /\ ErrCheckoutBack \notin res[s].BranchFailed
                   => head = res[s].OriginalBranch
            /\ ErrCheckoutBack \in res[s].BranchFailed
                   => res[s].BranchFailed \subseteq res[s].BranchReported

\* the destinations of the files of s reported as conflicts
ConflictDests(s) ==
    {p \in FsKeys :
        \E i \in 1..NumPaths(s), c \in res[s].Conflicts :
            LET ps == Paths(s)[i]
                tree == remote[ps.Branch]
            IN  IF IsDir(tree, ps.Include)
                THEN /\ c.Path \in Range(WalkFiles(tree, ps.Include))
                     /\ p = Join(LocalPathOf(ps), c.Path)
                ELSE c.Path = Base(ps.Include) /\ p = LocalPathOf(ps)}

\* C16: in Branch mode, when conflicts remain and no I/O operation fails,
\* every conflicting file of the working tree holds after CopyPaths the bytes
\* it held before the run, whether they were committed or not.
BranchKeepsLocal ==
    \A s \in SourceNames :
        BranchSyncDone(s) =>
            \A p \in ConflictDests(s) : fs[p] = start.fs[p]

\* C17: ThreeWayMerge(base, local, remote) returns remote as a clean result
\* when base = local, and local as a clean result when base = remote or
\* local = remote, without running the line merger.
MergeShortCircuit ==
    call.state = "returned" =>
        /\ call.base = call.local
               => /\ call.result = MergeResult(TRUE, call.remote, FALSE)
                  /\ ~call.lineMerger
        /\ (call.base = call.remote \/ call.local = call.remote)
               => /\ call.result = MergeResult(TRUE, call.local, FALSE)
                  /\ ~call.lineMerger

\* a call whose base and local are the same text and whose remote differs
MergeShortCircuitWitness ==
    /\ call.state = "returned"
    /\ call.base = call.local
    /\ call.remote # call.base
    /\ Len(call.base) = MaxLen
    /\ call.result.Content = call.remote

\* local and remote each replace line i of base, with different lines, and
\* change nothing else
SameLineReplaced(b, l, r, i) ==
    /\ Len(l) = Len(b) /\ Len(r) = Len(b)
    /\ l[i] # b[i] /\ r[i] # b[i] /\ l[i] # r[i]
    /\ \A j \in DOMAIN b \ {i} : l[j] = b[j] /\ r[j] = b[j]

\* C18: when local and remote each replace the same base line with different
\* content, ThreeWayMerge does not return a clean result: it reports a
\* conflict (on which the Merge-mode sync of the PathSpec aborts, leaving
\* the destination file, the `files` map and the snapshot as they were).
SameLineConflicts ==
    (/\ call.state = "returned"
     /\ \E i \in DOMAIN call.base :
            SameLineReplaced(call.base, call.local, call.remote, i))
    => (~call.result.Success /\ call.result.HasConflict)

\* local is base with one line appended, remote is base with its last line
\* (the one before the appended line) modified
AppendedNextToModified(b, l, r) ==
    /\ b # <<>>
    /\ Len(l) = Len(b) + 1 /\ SubSeq(l, 1, Len(b)) = b
    /\ l[Len(l)] \notin Range(b) \cup Range(r)
    /\ Len(r) = Len(b)
    /\ r[Len(b)] \notin Range(b)
    /\ SubSeq(r, 1, Len(b) - 1) = SubSeq(b, 1, Len(b) - 1)

\* C19: when local only appends a line after a base line and remote modifies
\* that base line, ThreeWayMerge reports a conflict (Success false,
\* HasConflict true) and the content it returns carries conflict markers.
AdjacentChangesConflict ==
    (/\ call.state = "returned"
     /\ AppendedNextToModified(call.base, call.local, call.remote))
    => /\ ~call.result.Success
       /\ call.result.HasConflict
       /\ ContainsConflictMarkers(call.result.Content)

\* the file rel of the processed PathSpec id is binary on one side at least
BinaryFile(id, rel) ==
    \/ isBinaryFile(LocalBytes(Entry(id).in, rel))
    \/ isBinaryFile(RemoteBytes(Entry(id).in, rel))

\* the base snapshot of the processed PathSpec id holds other bytes for rel
\* than the local file and than the remote file
BothChanged(id, rel) ==
    LET base == ReadFs(Entry(id).in.snapshot.files, rel)
    IN  /\ Entry(id).in.snapshot.exists
        /\ base # LocalBytes(Entry(id).in, rel)
        /\ base # RemoteBytes(Entry(id).in, rel)

\* C20: the engine never hands a binary file to the three-way merger and
\* never writes a merged binary: a binary file whose local and remote bytes
\* are the same is left as it is, one that changed on both sides to
\* different bytes is reported as a conflict.
BinaryNeverMerged ==
    \A id \in PathIds :
        (/\ Running /\ Processed(id) /\ NoFailureSoFar
         /\ Entry(id).in.mode \in {SyncModeMerge, SyncModeBranch}) =>
            \A rel \in RemoteFilesOf(Entry(id).in) :
                (/\ BinaryFile(id, rel)
                 /\ LocalBytes(Entry(id).in, rel) # NoFile
                 /\ RemoteBytes(Entry(id).in, rel) # NoFile)
                => /\ rel \notin Entry(id).out.merger
                   /\ IF LocalBytes(Entry(id).in, rel) = RemoteBytes(Entry(id).in, rel)
                      THEN ReadFs(fs, DestOf(Entry(id).in, rel))
                               = LocalBytes(Entry(id).in, rel)
                      ELSE BothChanged(id, rel)
                               => \E c \in Entry(id).out.conflicts : c.Path = rel

\* the destination bytes equal the remote bytes for every file of the
\* PathSpec whose input is `in`
EqualContent(in) ==
    \A rel \in NonExcluded(in) : LocalBytes(in, rel) = RemoteBytes(in, rel)

\* C21: if the destination bytes equal the remote bytes for every file of a
\* PathSpec, a sync in any mode changes no hash value of its `files` map and
\* leaves the content of its base snapshot as it was.
EqualContentIdempotent ==
    \A id \in PathIds :
        (Running /\ Processed(id) /\ EqualContent(Entry(id).in)) =>
            /\ \A key \in DOMAIN Entry(id).in.Files :
                   Entry(id).in.Files[key] # NoHash
                   => cfg[id[1]][id[2]][key] = Entry(id).in.Files[key]
            /\ Entry(id).in.snapshot.exists
                   => Entry(id).snap = Entry(id).in.snapshot

\* a PathSpec synced before (hashes recorded, base snapshot saved) is
\* processed in a writing mode while its files equal the remote files
EqualContentIdempotentWitness ==
    \E id \in PathIds :
        /\ Running /\ Processed(id) /\ EqualContent(Entry(id).in)
        /\ Entry(id).in.mode \in Writing /\ ~Entry(id).in.dry
        /\ Entry(id).in.snapshot.exists
        /\ \E key \in DOMAIN Entry(id).in.Files : Entry(id).in.Files[key] # NoHash
        /\ \E rel \in NonExcluded(Entry(id).in) :
               LocalBytes(Entry(id).in, rel) # NoFile

\* C22: for every relative path inside a tracked directory and every exclude
\* list, the hasher, the directory copy and the tree reader take the same
\* exclusion decision: a glob match of the base name or a substring match
\* of the relative path.
ExcludeAgreement ==
    call.state = "decided" =>
        /\ call.hasher = call.copy
        /\ call.copy = call.reader
        /\ call.hasher <=>
               \E k \in 1..Len(call.excludes) :
                   \/ Match(call.excludes[k], Base(call.path))
                   \/ Contains(call.path, call.excludes[k])

ExcludedFiles(in) == RemoteFilesOf(in) \ NonExcluded(in)

\* C23: a file of a tracked directory that matches an exclude pattern is
\* never reported as a conflict and never makes its PathSpec count as
\* differing from remote: a PathSpec that counts as differing has a file
\* that is not excluded and whose destination bytes are not the remote bytes.
ExcludedNeverDiffers ==
    \A id \in PathIds :
        (Running /\ Processed(id) /\ Entry(id).in.isDir) =>
            /\ \A c \in Entry(id).out.conflicts :
                   c.Path \notin ExcludedFiles(Entry(id).in)
            /\ Entry(id).differs =>
                   \E rel \in NonExcluded(Entry(id).in) :
                       LocalBytes(Entry(id).in, rel) # RemoteBytes(Entry(id).in, rel)

DistinctNames(srcs) ==
    \A i, j \in DOMAIN srcs : srcs[i].Name = srcs[j].Name => i = j

HadSource == \E i \in DOMAIN call.before : call.before[i].Name = call.name

\* C26: after any sequence of AddSource, RemoveSource and ApplyCherryBunch
\* the Source names are pairwise distinct; AddSource with an existing name
\* replaces that Source in place; RemoveSource(name) removes exactly that
\* Source and returns true if and only if it existed.
ConfigNamesDistinct ==
    /\ DistinctNames(call.Sources)
    /\ (call.op = "AddSource" /\ HadSource) =>
           /\ Len(call.Sources) = Len(call.before)
           /\ \A i \in DOMAIN call.before :
                  call.Sources[i] = IF call.before[i].Name = call.name
                                    THEN call.arg ELSE call.before[i]
    /\ call.op = "RemoveSource" =>
           /\ call.ret <=> HadSource
           /\ call.Sources =
                  SelectSeq(call.before, LAMBDA src : src.Name # call.name)

ConfigNamesDistinctWitness ==
    /\ call.op = "AddSource" /\ HadSource
    /\ Len(call.before) = 2
    /\ call.before[2].Name = call.name
    /\ call.before[2] # call.arg

Overlaps(a, b) ==
    \/ a = b
    \/ HasPrefix(b, a \o <<Slash>>)
    \/ HasPrefix(a, b \o <<Slash>>)

\* C27: no sync does work for a Source in which two PathSpecs have
\* overlapping include paths, one equal to or a path prefix of the other.
NoWorkOnOverlap ==
    \A i, j \in DOMAIN call.worked :
        i # j => ~Overlaps(call.worked[i].Include, call.worked[j].Include)

\* a file an earlier sync materialized, unchanged since, which the source
\* directory no longer holds
DeletedFromSource(in, rel) ==
    /\ in.Files[rel] # NoHash
    /\ LocalBytes(in, rel) # NoFile
    /\ HashBytes(LocalBytes(in, rel)) = in.Files[rel]
    /\ RemoteBytes(in, rel) = NoFile

\* C28: when a tracked directory is synced, a file that an earlier sync
\* materialized in the local copy and that has since been deleted from the
\* source is removed from the local copy.
DeletedFilesRemoved ==
    \A id \in PathIds :
        (/\ Running /\ Processed(id) /\ NoFailureSoFar
         /\ Entry(id).in.isDir
         /\ Entry(id).in.mode = SyncModeForce /\ ~Entry(id).in.dry) =>
            \A rel \in {RelA, RelTB} :
                DeletedFromSource(Entry(id).in, rel)
                => Entry(id).out.fs[DestOf(Entry(id).in, rel)] = NoFile

\* C29: with dry-run enabled, a sync in any mode changes no destination
\* file, does not save the configuration, writes no base snapshot and
\* creates no commit, on the current branch or on a conflict branch.
DryRunFrame ==
    (Running /\ run.dry) =>
        /\ fs = start.fs
        /\ disk = start.disk
        /\ snap = start.snap
        /\ \A s \in SourceNames : commits[s] = NoCommit
        /\ committed = start.committed
        /\ \A s \in SourceNames : ~res[s].BranchCreated

\* C30: a conflict branch created by a Branch-mode sync is named with the
\* configured branch prefix, so that every branch a sync created is listed,
\* and can be deleted, by the cleanup run with the configured prefix.
BranchUsesConfiguredPrefix ==
    \A b \in branches : b \in ListConflictBranches(branches, branchPrefix)

MergeModes == {SyncModeMerge, SyncModeBranch}

\* C31: in Merge or Branch mode, when the local content of a PathSpec
\* differs from remote and (source, include) has no base snapshot, a
\* conflict is reported for each local file whose bytes are not the remote
\* bytes, its bytes matching the recorded hash or not, and nothing is
\* written to the destination, to the `files` map or to the snapshot.
NoBaseReportsConflicts ==
    \A id \in PathIds :
        (/\ Running /\ Processed(id)
         /\ Entry(id).in.mode \in MergeModes
         /\ Entry(id).differs
         /\ ~Entry(id).in.snapshot.exists) =>
            /\ \A rel \in NonExcluded(Entry(id).in) :
                   (/\ LocalBytes(Entry(id).in, rel) # NoFile
                    /\ LocalBytes(Entry(id).in, rel) # RemoteBytes(Entry(id).in, rel))
                   => \E c \in Entry(id).out.conflicts :
                          Entry(id).in.isDir => c.Path = rel
            /\ Entry(id).out.fs = Entry(id).in.fs
            /\ cfg[id[1]][id[2]] = Entry(id).in.Files
            /\ Entry(id).snap = Entry(id).in.snapshot

\* the bytes the base snapshot of an input holds for the file rel
BaseBytes(in, rel) == in.snapshot.files[DestOf(in, rel)]

ConflictOn(e, rel) ==
    \E c \in e.out.conflicts : e.in.isDir => c.Path = rel

\* the decision table for one file: e is the history entry of its PathSpec
TableOutcome(e, rel) ==
    LET base   == BaseBytes(e.in, rel)
        local  == LocalBytes(e.in, rel)
        theirs == RemoteBytes(e.in, rel)
        dest   == e.out.fs[DestOf(e.in, rel)]
        m      == ThreeWayMerge(base, local, theirs)
    IN  IF local = NoFile THEN dest = theirs /\ ~ConflictOn(e, rel)
        ELSE IF local = theirs THEN dest = local /\ ~ConflictOn(e, rel)
        ELSE IF base = NoFile THEN dest = local /\ ConflictOn(e, rel)
        ELSE IF local = base THEN dest = theirs /\ ~ConflictOn(e, rel)
        ELSE IF theirs = base THEN dest = local /\ ~ConflictOn(e, rel)
        ELSE /\ rel \in e.out.merger
             /\ IF m.HasConflict THEN dest = local /\ ConflictOn(e, rel)
                ELSE dest = m.Content /\ ~ConflictOn(e, rel)

MergedWithBase(id) ==
    /\ Running /\ Processed(id) /\ NoFailureSoFar
    /\ Entry(id).in.mode \in MergeModes /\ ~Entry(id).in.dry
    /\ Entry(id).differs
    /\ Entry(id).in.snapshot.exists

\* C32: in Merge and Branch modes with a snapshot present, the outcome for
\* each file is the one of the decision table: local absent, remote
\* written; base absent and local = remote, kept; base absent and local #
\* remote, conflict and no write; local = base # remote, remote written;
\* remote = base # local, local kept; all three different, the three-way
\* merger is called and its result written only if clean.
DecisionTable ==
    \A id \in PathIds :
        MergedWithBase(id) =>
            \A rel \in NonExcluded(Entry(id).in) : TableOutcome(Entry(id), rel)

\* the decision table for the directory PathSpec, whose snapshot keys are
\* the relative paths the merge looks up (it holds)
DecisionTableDirectories ==
    \A id \in PathIds :
        (MergedWithBase(id) /\ Entry(id).in.isDir) =>
            \A rel \in NonExcluded(Entry(id).in) : TableOutcome(Entry(id), rel)

\* the non-excluded remote files whose destination is absent or has other
\* bytes
DifferingFiles(in) ==
    {rel \in NonExcluded(in) : LocalBytes(in, rel) # RemoteBytes(in, rel)}

\* C33: in Detect mode the conflict list of a PathSpec holds a Modified
\* entry for every non-excluded remote file whose destination file is
\* absent or has different bytes, and for no other file.
DetectReportsDiffering ==
    \A id \in PathIds :
        (/\ Running /\ Processed(id) /\ NoFailureSoFar
         /\ Entry(id).in.mode = SyncModeDetect) =>
            IF Entry(id).in.isDir
            THEN Entry(id).out.conflicts =
                     {Conflict(rel, ConflictTypeModified) :
                         rel \in DifferingFiles(Entry(id).in)}
            ELSE /\ \A c \in Entry(id).out.conflicts :
                        c.Type = ConflictTypeModified
                 /\ (Entry(id).out.conflicts # {})
                        <=> (DifferingFiles(Entry(id).in) # {})

\* the result of Source s is final and is the one the command reports as
\* "up to date": no error, no branch created, no conflict, no updated path
ReportedUpToDate(s) ==
    /\ Running /\ pc[s] = "send"
    /\ res[s].Error = NoError
    /\ ~res[s].BranchCreated
    /\ res[s].Conflicts = {}
    /\ res[s].UpdatedPaths = <<>>

\* C34: whenever the sync of a Source is reported as up to date, none of its
\* PathSpecs was skipped and every non-excluded remote file of every one of
\* its PathSpecs has a destination file with identical bytes.
UpToDateMeansEqual ==
    \A s \in SourceNames :
        ReportedUpToDate(s) =>
            \A i \in 1..NumPaths(s) :
                /\ Processed(<<s, i>>)
                /\ \A rel \in NonExcluded(Entry(<<s, i>>).in) :
                       ReadFs(fs, DestOf(Entry(<<s, i>>).in, rel))
                           = RemoteBytes(Entry(<<s, i>>).in, rel)

(***************************************************************************)
(* The command sync s1 run several times in a row, not dry-run, in a       *)
(* writing mode; call remembers how the last finished run ended.           *)
(***************************************************************************)
MaxTwiceRuns == 3

\* the run of Source s went through: no error, no I/O failure, no PathSpec
\* skipped, no conflict left and no conflict branch
Succeeded(s) ==
    /\ res[s].Error = NoError
    /\ NoFailureSoFar
    /\ \A i \in 1..NumPaths(s) : Processed(<<s, i>>)
    /\ res[s].Conflicts = {}
    /\ ~res[s].BranchCreated

LastRun(s) ==
    [state |-> "ran", mode |-> run.mode, ok |-> Succeeded(s),
     updated |-> res[s].UpdatedPaths, events |-> eventsLeft]

\* syncSingleSource returns and the process exits
ReturnRecorded(s) ==
    /\ pc[s] = "send"
    /\ run.kind = "one"
    /\ ExitWith(LastRun(s))

NextTwice ==
    \/ Environment
    \/ \E m \in Writing : syncSingleSource("s1", m, FALSE)
    \/ Task("s1")
    \/ ReturnRecorded("s1")

InitTwice ==
    /\ InitRuns(<<>>, TRUE, MaxEvents, MaxTwiceRuns)
    /\ branchPrefix = DefaultBranchPrefix
    /\ call = NoCall

SpecTwice == InitTwice /\ [][NextTwice]_vars

\* the current run repeats the last one: same mode, the last one succeeded,
\* nothing changed locally or remotely in between, nothing failed since
Repeated ==
    /\ Running
    /\ call.state = "ran" /\ call.ok
    /\ call.mode = run.mode
    /\ call.events = start.events
    /\ NoFailureSoFar

\* C35: a Force, Merge or Branch sync that repeats a successful one with no
\* local and no remote change in between writes no destination file,
\* reports no updated path and creates no commit.
SecondRunIdle ==
    Repeated =>
        /\ fs = start.fs
        /\ res["s1"].UpdatedPaths = <<>>
        /\ ~commits["s1"].made

(***************************************************************************)
(* The commands sync --all in a writing mode, one at a time, with remote   *)
(* commits to d/a and h and local edits in between.                        *)
(***************************************************************************)
NextMixed ==
    \/ Environment
    \/ \E m \in Writing : syncAllSources(m, FALSE)
    \/ \E s \in SourceNames : Task(s) \/ SendResult(s)
    \/ CloseResults
    \/ Collect
    \/ ReturnAll

InitMixed ==
    /\ InitWith(<<>>, TRUE, MaxEvents)
    /\ branchPrefix = DefaultBranchPrefix
    /\ call = NoCall

SpecMixed == InitMixed /\ [][NextMixed]_vars

\* the `files` map PathSpec i of s has once the run of s is over: the one
\* its processPath produced if it was marked updated, the one it had before
\* the run otherwise
ProducedFiles(s, i) ==
    IF Processed(<<s, i>>) /\ Entry(<<s, i>>).out.updated
    THEN Entry(<<s, i>>).out.newHashes
    ELSE start.disk[s][i]

\* C36: after sync --all (every result delivered, no I/O failure), the saved
\* configuration holds, for each Source whose sync failed or was aborted by
\* merge conflicts, the `files` maps the Source had before the run, and for
\* each Source that succeeded the maps produced by its run, however the
\* tasks' configuration saves interleave.
SavedConfigPerSource ==
    (run.kind = "all" /\ closed /\ ~run.dry /\ NoFailureSoFar) =>
        \A s \in SourceNames :
            IF res[s].Error # NoError
            THEN disk[s] = start.disk[s]
            ELSE \A i \in 1..NumPaths(s) : disk[s][i] = ProducedFiles(s, i)

\* PathSpec id was marked updated in the current run
Updated(id) == Processed(id) /\ Entry(id).out.updated

\* the destination files of PathSpec id and those its processPath wrote
DestinationsOf(id) ==
    {DestOf(Entry(id).in, rel) : rel \in RemoteFilesOf(Entry(id).in)}

WrittenBy(id) == {p \in FsKeys : Entry(id).out.fs[p] # Entry(id).in.fs[p]}

\* C37: a commit is created only when auto-commit is enabled, the Source's
\* sync produced an updated path and dry-run is off; every path it stages is
\* a destination of a PathSpec updated in that sync, and the commit contains
\* the files the sync wrote.
AutoCommitStagesDestinations ==
    \A s \in SourceNames :
        (Running /\ commits[s].made) =>
            /\ autoCommit /\ HasChanges(s) /\ ~run.dry
            /\ \A p \in commits[s].paths :
                   \E i \in 1..NumPaths(s) :
                       Updated(<<s, i>>) /\ p \in DestinationsOf(<<s, i>>)
            /\ \A i \in 1..NumPaths(s) :
                   Updated(<<s, i>>) => WrittenBy(<<s, i>>) \subseteq commits[s].paths

(***************************************************************************)
(* checkoutBranch on one reference name, followed by the step of CopyPaths *)
(* that depends on its result.  The cached clone is described by what the  *)
(* name resolves to: a branch, a tag, the object of the hash it decodes to.*)
(***************************************************************************)
HexDigits == {"a", "0"}

RefChars == HexDigits \cup {"m"}

RefNames == UNION {[1..n -> RefChars] : n \in 1..MaxLen}

ZeroHash == <<"0", "0">>

\* hex.DecodeString: the bytes decoded before the first error
RECURSIVE DecodeString(_)
DecodeString(s) ==
    IF Len(s) >= 2 /\ s[1] \in HexDigits /\ s[2] \in HexDigits
    THEN <<s[1], s[2]>> \o DecodeString(SubSeq(s, 3, Len(s)))
    ELSE <<>>

\* plumbing.NewHash: the decoded bytes copied into a zero hash
NewHash(s) == SubSeq(DecodeString(s) \o ZeroHash, 1, Len(ZeroHash))

ErrNotValidRef == "not a valid branch, tag, or commit"
ErrCheckoutHash == "failed to checkout"

\* checkoutBranch(branch) for a non-empty name: the error it returns and
\* what the working tree of the clone is checked out at
checkoutRef(name, isBranch, isTag, isCommit, dryRun) ==
    IF dryRun THEN [err |-> NoError, at |-> "unchanged"]
    ELSE IF isBranch THEN [err |-> NoError, at |-> "branch"]
    ELSE IF isTag THEN [err |-> NoError, at |-> "tag"]
    ELSE IF NewHash(name) = ZeroHash
         THEN [err |-> ErrNotValidRef, at |-> "unchanged"]
    ELSE IF isCommit THEN [err |-> NoError, at |-> "commit"]
    ELSE [err |-> ErrCheckoutHash, at |-> "unchanged"]

CallCheckout ==
    /\ call.state = "ref"
    /\ call' = [call EXCEPT
           !.state = "checked",
           !.result = checkoutRef(call.name, call.isBranch, call.isTag,
                                  call.isCommit, call.dry)]
    /\ ConfigFrame
    /\ UNCHANGED snap

\* CopyPaths, lines 343-369: a failed checkout skips the PathSpec, otherwise
\* the source path is read and processed
AfterCheckout ==
    /\ call.state = "checked"
    /\ call' = [call EXCEPT
           !.state = IF call.result.err = NoError THEN "read" ELSE "skipped"]
    /\ ConfigFrame
    /\ UNCHANGED snap

NextCheckout == CallCheckout \/ AfterCheckout

InitCheckout ==
    /\ InitWith(<<>>, TRUE, 0)
    /\ branchPrefix = DefaultBranchPrefix
    /\ \E name \in RefNames, b \in BOOLEAN, tg \in BOOLEAN, c \in BOOLEAN,
          d \in BOOLEAN :
           call = [state |-> "ref", name |-> name, isBranch |-> b,
                   isTag |-> tg, isCommit |-> c /\ NewHash(name) # ZeroHash,
                   dry |-> d,
                   result |-> [err |-> NoError, at |-> "unchanged"]]

SpecCheckout == InitCheckout /\ [][NextCheckout]_vars

\* the name of the call resolves neither as a branch, nor as a tag, nor as
\* the hash of a commit
ResolvesNowhere == ~call.isBranch /\ ~call.isTag /\ ~call.isCommit

\* C38: checkout(ref) resolves ref as a branch first, then as a tag, then as
\* a commit hash (a name that is both a branch and a tag resolves to the
\* branch); when none resolves it fails with the "not a valid branch, tag,
\* or commit" error and no file of the PathSpec is read or written.
CheckoutOrder ==
    /\ call.state \in {"checked", "read", "skipped"} =>
          /\ call.isBranch => call.result = [err |-> NoError, at |-> "branch"]
          /\ (~call.isBranch /\ call.isTag)
                => call.result = [err |-> NoError, at |-> "tag"]
          /\ (~call.isBranch /\ ~call.isTag /\ call.isCommit)
                => call.result = [err |-> NoError, at |-> "commit"]
          /\ ResolvesNowhere => call.result.err = ErrNotValidRef
    /\ ResolvesNowhere => call.state # "read"

\* every line of a is in b, in the same order: b is a with lines inserted
RECURSIVE IsSubsequence(_, _)
IsSubsequence(a, b) ==
    IF a = <<>> THEN TRUE
    ELSE IF b = <<>> THEN FALSE
    ELSE IF a[1] = b[1] THEN IsSubsequence(Tail(a), Tail(b))
    ELSE IsSubsequence(a, Tail(b))

\* local only adds lines to base, remote modifies base
LocalOnlyAdds ==
    /\ call.local # call.base
    /\ IsSubsequence(call.base, call.local)
    /\ call.remote # call.base

\* C39: when local only adds lines to base and remote modifies base,
\* ThreeWayMerge succeeds without conflict, the merged content holds every
\* line of remote and every line local added, and holds no base line that
\* remote replaced.
LocalAdditionsMerge ==
    (call.state = "returned" /\ LocalOnlyAdds) =>
        /\ call.result.Success /\ ~call.result.HasConflict
        /\ Range(call.remote) \subseteq Range(call.result.Content)
        /\ Range(call.local) \ Range(call.base) \subseteq Range(call.result.Content)
        /\ \A x \in Range(call.base) \ Range(call.remote) :
               x \notin Range(call.result.Content)

PruneRemovedOrphans ==
    /\ call.op = "CleanOrphanedSnapshots" /\ call.ret
    /\ \E s \in SourceNames \ Range(call.arg), inc \in Includes :
           HasSnapshot(call.worked, s, inc)
    /\ \E s \in Range(call.arg), inc \in Includes : HasSnapshot(snap, s, inc)


====
